---- MODULE Spec2Model ----
(***************************************************************************)
(* Verification model of the VA-API H.264 decoder element                  *)
(* (sys/va/gstvah264dec.c): the session controller callbacks               *)
(* new_sequence / negotiate / new_picture / new_field_picture /            *)
(* start_picture / decode_slice / end_picture / output_picture, the        *)
(* external H.264 engine that drives them, and the accelerator backend     *)
(* they talk to.                                                           *)
(***************************************************************************)
EXTENDS Integers, Sequences, FiniteSets, TLC

\* ------------------------------------------------------------------ bounds
\* picture objects the engine has in use at a time; a destroyed picture's
\* place is taken again by a later picture
MaxPics == 2
\* slices the engine submits per picture
MaxSlices == 2

Pics == 1..MaxPics

\* user data of a picture that carries no GstVaDecodePicture (NULL)
NoHandle == 0

\* ------------------------------------------------------- GstFlowReturn
GST_FLOW_OK == "GST_FLOW_OK"
GST_FLOW_FLUSHING == "GST_FLOW_FLUSHING"
GST_FLOW_ERROR == "GST_FLOW_ERROR"
GST_FLOW_NOT_LINKED == "GST_FLOW_NOT_LINKED"

\* results gst_video_decoder_allocate_output_frame can give
AllocRets == {GST_FLOW_OK, GST_FLOW_FLUSHING, GST_FLOW_ERROR}
\* results gst_video_decoder_finish_frame can give
FinishRets == {GST_FLOW_OK, GST_FLOW_NOT_LINKED}

\* ------------------------------------------------------------- variables
VARIABLES
  last_ret,     \* GstVaH264Dec.last_ret
  stage,        \* engine: where each picture is in its lifecycle
  nslices,      \* engine: decode_slice calls made for each picture
  cur,          \* engine: picture being decoded (0: none)
  held,         \* engine: pictures whose creation reference it still owns
  dpb,          \* engine: pictures the DPB holds a reference to
  first_field,  \* engine: for a second field, its first field (0: none)
  refs,         \* GstH264Picture reference count
  user_data,    \* GstH264Picture user data: the attached handle
  va,           \* GstVaDecodePicture handles: buffer, frees, accelerator calls
  frameBuf,     \* GstVideoCodecFrame.output_buffer of each picture's frame
  allocRet,     \* what the output-buffer allocation returned for each picture
  out,          \* what output_picture did with each picture
  afterFail,    \* the picture was created after another one's allocation failed
  ret,          \* the last boolean callback and its result
  anyFailed,    \* some boolean callback has reported failure
  allocFailed   \* some output-buffer allocation has failed

picVars == <<last_ret, stage, nslices, cur, held, dpb, first_field, refs,
             user_data, va, frameBuf, allocRet, out, afterFail, ret,
             anyFailed, allocFailed>>

NoVa == [gstbuffer |-> 0, freed |-> 0, log |-> <<>>]
NoOut == [called |-> FALSE, unref |-> 0, drop |-> 0, finish |-> 0,
          ret |-> "none"]

\* gst_va_h264_dec_init / zero-filled instance, no picture created yet
InitPic ==
  /\ last_ret = GST_FLOW_OK
  /\ stage = [p \in Pics |-> "none"]
  /\ nslices = [p \in Pics |-> 0]
  /\ cur = 0
  /\ held = {}
  /\ dpb = {}
  /\ first_field = [p \in Pics |-> 0]
  /\ refs = [p \in Pics |-> 0]
  /\ user_data = [p \in Pics |-> NoHandle]
  /\ va = [h \in Pics |-> NoVa]
  /\ frameBuf = [p \in Pics |-> 0]
  /\ allocRet = [p \in Pics |-> "none"]
  /\ out = [p \in Pics |-> NoOut]
  /\ afterFail = [p \in Pics |-> FALSE]
  /\ ret = [cb |-> "none", pic |-> 0, ok |-> TRUE]
  /\ anyFailed = FALSE
  /\ allocFailed = FALSE

\* ===================================================== sequence negotiation
\* padding a cropped SPS cuts off one side of the picture
CropPad == 8

VARIABLES
  self,          \* session state: GstVaH264Dec and the GstVaBaseDec fields it sets
  decoder,       \* accelerator (GstVaDecoder): open flag and active configuration
  output_state,  \* GstVaBaseDec.output_state set by negotiate
  has_profile,   \* profiles the accelerator reports as supported
  seqRet         \* the last new_sequence call and its result

seqVars == <<self, decoder, output_state, has_profile, seqRet>>

\* one call of a helper function of the element: its name, its arguments
\* and what it returned
VARIABLE query

fnVars == <<query>>

\* the post-processor element, and the input of its last before_transform
VARIABLE vpp

VARIABLE vppRet

VARIABLE vppThread

vppVars == <<vpp, vppRet, vppThread>>

\* one picture of the engine whose reference marking changes while it is
\* kept, and what the last start_picture or decode_slice described it as
VARIABLE ref_picture

VARIABLE va_desc

markVars == <<ref_picture, va_desc>>

NoQuery == [fn |-> "none", arg |-> <<>>, result |-> "none"]

VAProfileNone == "VAProfileNone"
RT_FORMAT_NONE == "0"

\* profile_map[]: SPS profile_idc to VA profile
profile_map ==
  << [profile_idc |-> "MAIN", va_profile |-> "VAProfileH264Main"],
     [profile_idc |-> "HIGH", va_profile |-> "VAProfileH264High"],
     [profile_idc |-> "MULTIVIEW_HIGH", va_profile |-> "VAProfileH264MultiviewHigh"],
     [profile_idc |-> "STEREO_HIGH", va_profile |-> "VAProfileH264StereoHigh"] >>

\* _get_num_views
_get_num_views(sps) ==
  1 + (IF sps.extension_type = "MVC" THEN sps.num_views_minus1 ELSE 0)

\* _get_rtformat
_get_rtformat(bit_depth_luma, chroma_format_idc) ==
  IF bit_depth_luma = 10
  THEN (IF chroma_format_idc = 3 THEN "VA_RT_FORMAT_YUV444_10"
        ELSE IF chroma_format_idc = 2 THEN "VA_RT_FORMAT_YUV422_10"
        ELSE "VA_RT_FORMAT_YUV420_10")
  ELSE IF bit_depth_luma = 8
  THEN (IF chroma_format_idc = 3 THEN "VA_RT_FORMAT_YUV444"
        ELSE IF chroma_format_idc = 2 THEN "VA_RT_FORMAT_YUV422"
        ELSE "VA_RT_FORMAT_YUV420")
  ELSE RT_FORMAT_NONE

\* the map has no entry for Multiview High: that profile is a candidate
\* only through the switch
DirectProfiles_no_multiview(sps) ==
  LET hits == {j \in 1..Len(profile_map) :
                 /\ profile_map[j].profile_idc = sps.profile_idc
                 /\ sps.profile_idc # "MULTIVIEW_HIGH"} IN
  IF hits = {} THEN <<>>
  ELSE <<profile_map[CHOOSE j \in hits : \A k \in hits : j <= k].va_profile>>

\* _get_profile, first loop: the direct mapping of the SPS profile
DirectProfiles(sps) ==
  LET hits == {j \in 1..Len(profile_map) :
                 profile_map[j].profile_idc = sps.profile_idc} IN
  IF hits = {} THEN <<>>
  ELSE <<profile_map[CHOOSE j \in hits : \A k \in hits : j <= k].va_profile>>

\* a Baseline stream with a constraint flag tries Main before
\* Constrained Baseline
FallbackProfiles_main_first(sps, max_dpb_size) ==
  IF sps.profile_idc = "BASELINE"
     /\ (sps.constraint_set0_flag = 1 \/ sps.constraint_set1_flag = 1
         \/ sps.constraint_set2_flag = 1)
  THEN <<"VAProfileH264Main", "VAProfileH264ConstrainedBaseline">>
  ELSE <<>>

\* every stream falls back to all the profiles of the map
FallbackProfiles_whole_map(sps, max_dpb_size) ==
  [j \in 1..Len(profile_map) |-> profile_map[j].va_profile]

\* _get_profile, the switch: the fallback candidates
FallbackProfiles(sps, max_dpb_size) ==
  IF sps.profile_idc = "BASELINE"
  THEN (IF sps.constraint_set0_flag = 1 \/ sps.constraint_set1_flag = 1
           \/ sps.constraint_set2_flag = 1
        THEN <<"VAProfileH264ConstrainedBaseline", "VAProfileH264Main">>
        ELSE <<>>)
  ELSE IF sps.profile_idc = "EXTENDED"
  THEN (IF sps.constraint_set1_flag = 1 THEN <<"VAProfileH264Main">> ELSE <<>>)
  ELSE IF sps.profile_idc = "MULTIVIEW_HIGH"
  THEN (IF _get_num_views(sps) = 2 THEN <<"VAProfileH264StereoHigh">> ELSE <<>>)
       \o (IF max_dpb_size <= 16 THEN <<"VAProfileH264MultiviewHigh">> ELSE <<>>)
  ELSE <<>>

\* VAProfile profiles[4]: the candidate array
CandidateSlots == 4

\* the first candidate is returned without asking the accelerator
_get_profile_unchecked(has, sps, max_dpb_size) ==
  LET profiles == DirectProfiles(sps) \o FallbackProfiles(sps, max_dpb_size)
  IN IF profiles = <<>> THEN VAProfileNone ELSE profiles[1]

\* _get_profile: the first candidate the accelerator supports
_get_profile(has, sps, max_dpb_size) ==
  LET profiles == DirectProfiles(sps) \o FallbackProfiles(sps, max_dpb_size)
      ok == {j \in 1..Len(profiles) :
              j <= CandidateSlots /\ profiles[j] \in has} IN
  IF ok = {} THEN VAProfileNone
  ELSE profiles[CHOOSE j \in ok : \A k \in ok : j <= k]

\* ------------------------------------------------------ the accelerator
ClosedDecoder ==
  [open |-> FALSE, profile |-> VAProfileNone, rt_format |-> RT_FORMAT_NONE,
   coded_width |-> 0, coded_height |-> 0]

\* gst_va_decoder_config_is_equal
config_is_equal(d, profile, rt_format, width, height) ==
  /\ d.profile = profile
  /\ d.rt_format = rt_format
  /\ d.coded_width = width
  /\ d.coded_height = height

NoOutputState == [set |-> FALSE, width |-> 0, height |-> 0, mixed |-> FALSE]

\* where a negotiation can fail: closing, opening or sizing the accelerator,
\* or the base class negotiation with downstream
FailAts == {"none", "close", "open", "set_frame_size", "downstream"}

\* the renegotiation request is served whether or not the flag is set
negotiate_code_unguarded(s, d, os, failAt) ==
  LET s1 == [s EXCEPT !.need_negotiation = FALSE]
      opened == [ClosedDecoder EXCEPT !.open = TRUE, !.profile = s1.profile,
                                      !.rt_format = s1.rt_format]
      sized == [opened EXCEPT !.coded_width = s1.coded_width,
                              !.coded_height = s1.coded_height]
      os1 == [set |-> TRUE, width |-> s1.width, height |-> s1.height,
              mixed |-> s1.interlaced]
  IN
  IF d.open /\ failAt = "close"
  THEN [self |-> s1, decoder |-> d, output_state |-> os, ok |-> FALSE,
        ran |-> TRUE]
  ELSE IF failAt = "open"
  THEN [self |-> s1, decoder |-> ClosedDecoder, output_state |-> os,
        ok |-> FALSE, ran |-> TRUE]
  ELSE IF failAt = "set_frame_size"
  THEN [self |-> s1, decoder |-> opened, output_state |-> os, ok |-> FALSE,
        ran |-> TRUE]
  ELSE [self |-> s1, decoder |-> sized, output_state |-> os1,
        ok |-> failAt # "downstream", ran |-> TRUE]

\* gst_va_h264_dec_negotiate
negotiate_code(s, d, os, failAt) ==
  IF ~s.need_negotiation
  THEN [self |-> s, decoder |-> d, output_state |-> os, ok |-> TRUE,
        ran |-> FALSE]
  ELSE
    LET s1 == [s EXCEPT !.need_negotiation = FALSE]
        opened == [ClosedDecoder EXCEPT !.open = TRUE, !.profile = s1.profile,
                                        !.rt_format = s1.rt_format]
        sized == [opened EXCEPT !.coded_width = s1.coded_width,
                                !.coded_height = s1.coded_height]
        os1 == [set |-> TRUE, width |-> s1.width, height |-> s1.height,
                mixed |-> s1.interlaced]
    IN
    IF d.open /\ failAt = "close"
    THEN [self |-> s1, decoder |-> d, output_state |-> os, ok |-> FALSE,
          ran |-> TRUE]
    ELSE IF failAt = "open"
    THEN [self |-> s1, decoder |-> ClosedDecoder, output_state |-> os,
          ok |-> FALSE, ran |-> TRUE]
    ELSE IF failAt = "set_frame_size"
    THEN [self |-> s1, decoder |-> opened, output_state |-> os, ok |-> FALSE,
          ran |-> TRUE]
    ELSE [self |-> s1, decoder |-> sized, output_state |-> os1,
          ok |-> failAt # "downstream", ran |-> TRUE]

\* the display size and the paddings new_sequence derives from the SPS
Display(sps) ==
  IF sps.frame_cropping_flag = 1
  THEN [width |-> sps.crop_rect_width, height |-> sps.crop_rect_height,
        padding_left |-> sps.crop_rect_x,
        padding_right |-> sps.width - sps.crop_rect_x - sps.crop_rect_width,
        padding_top |-> sps.crop_rect_y,
        padding_bottom |-> sps.height - sps.crop_rect_y - sps.crop_rect_height]
  ELSE [width |-> sps.width, height |-> sps.height, padding_left |-> 0,
        padding_right |-> 0, padding_top |-> 0, padding_bottom |-> 0]

Padding(disp) ==
  [padding_left |-> disp.padding_left, padding_right |-> disp.padding_right,
   padding_top |-> disp.padding_top, padding_bottom |-> disp.padding_bottom]

\* gst_va_h264_dec_new_sequence: the format-change test
new_sequence_format_changed(d, profile, rt_format, sps) ==
  ~config_is_equal(d, profile, rt_format, sps.width, sps.height)

\* the DPB capacity follows the reported size down as well as up
new_sequence_dpb_size_reported(s, max_dpb_size) == max_dpb_size

\* gst_va_h264_dec_new_sequence: the DPB capacity
new_sequence_dpb_size(s, max_dpb_size) ==
  IF s.dpb_size < max_dpb_size THEN max_dpb_size ELSE s.dpb_size

\* gst_va_h264_dec_new_sequence
new_sequence_code(s, d, os, has, sps, max_dpb_size, failAt) ==
  LET dpb_size == new_sequence_dpb_size(s, max_dpb_size)
      disp == Display(sps)
      profile == _get_profile(has, sps, max_dpb_size)
      rt_format == _get_rtformat(sps.bit_depth_luma_minus8 + 8,
                                 sps.chroma_format_idc)
      fmt == new_sequence_format_changed(d, profile, rt_format, sps)
      coded_width == IF fmt THEN sps.width ELSE s.coded_width
      coded_height == IF fmt THEN sps.height ELSE s.coded_height
      res == s.width # disp.width \/ s.height # disp.height
      interlaced == sps.frame_mbs_only_flag = 0
      ilc == s.interlaced # interlaced
      need_valign == disp.width < coded_width \/ disp.height < coded_height
      crop == need_valign /\ s.valign # Padding(disp)
      negotiation_needed == fmt \/ res \/ ilc \/ crop
      s1 == [profile |-> IF fmt THEN profile ELSE s.profile,
             rt_format |-> IF fmt THEN rt_format ELSE s.rt_format,
             coded_width |-> coded_width, coded_height |-> coded_height,
             dpb_size |-> dpb_size, width |-> disp.width,
             height |-> disp.height, interlaced |-> interlaced,
             need_valign |-> need_valign,
             valign |-> IF need_valign THEN Padding(disp) ELSE s.valign,
             min_buffers |-> dpb_size + 4,
             need_negotiation |-> negotiation_needed \/ s.need_negotiation]
      n == negotiate_code(s1, d, os, failAt)
  IN
  IF profile = VAProfileNone \/ rt_format = RT_FORMAT_NONE
  THEN [self |-> [s EXCEPT !.dpb_size = dpb_size], decoder |-> d,
        output_state |-> os, ok |-> FALSE, negotiated |-> FALSE]
  ELSE IF negotiation_needed
  THEN [self |-> n.self, decoder |-> n.decoder,
        output_state |-> n.output_state, ok |-> n.ok, negotiated |-> TRUE]
  ELSE [self |-> s1, decoder |-> d, output_state |-> os, ok |-> TRUE,
        negotiated |-> FALSE]

\* ------------------------------------------------- the streams offered
PicHeight == 16
DpbSizes == {2, 4}

BaseSps ==
  [profile_idc |-> "MAIN", constraint_set0_flag |-> 0,
   constraint_set1_flag |-> 0, constraint_set2_flag |-> 0,
   extension_type |-> "NONE", num_views_minus1 |-> 0,
   bit_depth_luma_minus8 |-> 0, chroma_format_idc |-> 1,
   width |-> 16, height |-> PicHeight, frame_cropping_flag |-> 0,
   crop_rect_x |-> 0, crop_rect_y |-> 0, crop_rect_width |-> 0,
   crop_rect_height |-> 0, frame_mbs_only_flag |-> 1]

\* crop: "none", or CropPad columns cut off at the "left" or at the "right"
SpsOf(profile_idc, w, crop, mbs) ==
  [BaseSps EXCEPT !.profile_idc = profile_idc, !.width = w,
                  !.frame_mbs_only_flag = mbs,
                  !.frame_cropping_flag = IF crop = "none" THEN 0 ELSE 1,
                  !.crop_rect_x = IF crop = "left" THEN CropPad ELSE 0,
                  !.crop_rect_width = IF crop = "none" THEN 0 ELSE w - CropPad,
                  !.crop_rect_height = IF crop = "none" THEN 0 ELSE PicHeight]

\* a progressive uncropped Main stream; streams that differ from it in the
\* profile, the coded width, the cropping (two croppings of one display
\* size) or the interlacing, and one that differs in all of them; a Baseline
\* stream without constraint flags (no candidate profile) and a 12-bit
\* stream (no format)
SpsSet ==
  {SpsOf("MAIN", 16, "none", 1), SpsOf("HIGH", 16, "none", 1),
   SpsOf("MAIN", 32, "none", 1), SpsOf("MAIN", 16, "right", 1),
   SpsOf("MAIN", 16, "left", 1), SpsOf("MAIN", 16, "none", 0),
   SpsOf("HIGH", 32, "right", 0),
   [BaseSps EXCEPT !.profile_idc = "BASELINE"],
   [BaseSps EXCEPT !.bit_depth_luma_minus8 = 4]}

\* the profiles of the device under the session
Supported == {"VAProfileH264Main", "VAProfileH264High"}

InitSelf ==
  [profile |-> VAProfileNone, rt_format |-> RT_FORMAT_NONE, coded_width |-> 0,
   coded_height |-> 0, dpb_size |-> 0, width |-> 0, height |-> 0,
   interlaced |-> FALSE, need_valign |-> FALSE,
   valign |-> [padding_left |-> 0, padding_right |-> 0, padding_top |-> 0,
               padding_bottom |-> 0],
   min_buffers |-> 0, need_negotiation |-> FALSE]

InitSeq ==
  /\ self = InitSelf
  /\ decoder = ClosedDecoder
  /\ output_state = NoOutputState
  /\ has_profile = Supported
  /\ seqRet = [called |-> FALSE, sps |-> BaseSps, max_dpb_size |-> 0,
               ok |-> FALSE, negotiated |-> FALSE]

\* ----------------------------------------------- picture reference count
\* gst_h264_picture_unref n times: the count after it
RefsAfter(p, n) == [refs EXCEPT ![p] = IF @ >= n THEN @ - n ELSE 0]

\* the destroy notify given to gst_h264_picture_set_user_data
\* (gst_va_decode_picture_free) runs when the last reference goes
VaAfterUnref(v, p, n) ==
  IF n > 0 /\ refs[p] > 0 /\ refs[p] <= n /\ user_data[p] # NoHandle
  THEN [v EXCEPT ![user_data[p]].freed = @ + 1]
  ELSE v

\* the accelerator calls made for a picture are logged on its handle
VaLogged(p, calls) ==
  IF user_data[p] = NoHandle THEN va
  ELSE [va EXCEPT ![user_data[p]].log = @ \o calls]

\* the engine or the DPB still refers to the picture
Alive(p) == p \in held \/ p \in dpb

\* a picture object the engine can use for a new picture: never used, or
\* destroyed together with the other field of its pair
IsFree(p) ==
  /\ ~Alive(p)
  /\ \A q \in Pics : first_field[q] = p => ~Alive(q)
  /\ first_field[p] # 0 => ~Alive(first_field[p])

\* the engine takes the first free picture object
IsNextPic(p) == IsFree(p) /\ \A q \in Pics : q < p => ~IsFree(q)

Called(cb, p, ok) ==
  /\ ret' = [cb |-> cb, pic |-> p, ok |-> ok]
  /\ anyFailed' = (anyFailed \/ ~ok)

\* the engine's side of creating picture p: a fresh object with one
\* reference, which becomes the picture being decoded
NewPicture(p, first) ==
  /\ stage' = [stage EXCEPT ![p] = "new"]
  /\ nslices' = [nslices EXCEPT ![p] = 0]
  /\ out' = [out EXCEPT ![p] = NoOut]
  /\ first_field' = [q \in Pics |-> IF q = p THEN first
                                    ELSE IF first_field[q] = p THEN 0
                                    ELSE first_field[q]]
  /\ cur' = p
  /\ held' = held \cup {p}
  /\ refs' = [refs EXCEPT ![p] = 1]

\* ---------------------------------------------------------- new_picture
\* the status is kept in a local instead of the session
new_picture_code_unrecorded(lr, r) == [last_ret |-> lr, ok |-> r = GST_FLOW_OK]

\* gst_va_h264_dec_new_picture: r is what allocate_output_frame returns
new_picture_code(lr, r) == [last_ret |-> r, ok |-> r = GST_FLOW_OK]

\* the callback also clears the DPB capacity of the session
new_picture_sizing_dpb(p, r) ==
  LET c == new_picture_code(last_ret, r) IN
  /\ cur = 0
  /\ IsNextPic(p)
  /\ last_ret' = c.last_ret
  /\ allocRet' = [allocRet EXCEPT ![p] = r]
  /\ allocFailed' = (allocFailed \/ r # GST_FLOW_OK)
  /\ afterFail' = [afterFail EXCEPT ![p] = allocFailed]
  /\ frameBuf' = [frameBuf EXCEPT ![p] = IF r = GST_FLOW_OK THEN p ELSE 0]
  /\ user_data' = [user_data EXCEPT ![p] = IF c.ok THEN p ELSE NoHandle]
  /\ va' = [va EXCEPT ![p] = IF c.ok
                             THEN [gstbuffer |-> frameBuf'[p], freed |-> 0,
                                   log |-> <<>>]
                             ELSE NoVa]
  /\ NewPicture(p, 0)
  /\ Called("new_picture", p, c.ok)
  /\ UNCHANGED dpb
  /\ self' = [self EXCEPT !.dpb_size = 0]
  /\ UNCHANGED <<decoder, output_state, has_profile, seqRet, fnVars, markVars, vppVars>>

\* gst_va_h264_dec_new_picture
new_picture(p, r) ==
  LET c == new_picture_code(last_ret, r) IN
  /\ cur = 0
  /\ IsNextPic(p)
  /\ last_ret' = c.last_ret
  /\ allocRet' = [allocRet EXCEPT ![p] = r]
  /\ allocFailed' = (allocFailed \/ r # GST_FLOW_OK)
  /\ afterFail' = [afterFail EXCEPT ![p] = allocFailed]
  /\ frameBuf' = [frameBuf EXCEPT ![p] = IF r = GST_FLOW_OK THEN p ELSE 0]
  /\ user_data' = [user_data EXCEPT ![p] = IF c.ok THEN p ELSE NoHandle]
  /\ va' = [va EXCEPT ![p] = IF c.ok
                             THEN [gstbuffer |-> frameBuf'[p], freed |-> 0,
                                   log |-> <<>>]
                             ELSE NoVa]
  /\ NewPicture(p, 0)
  /\ Called("new_picture", p, c.ok)
  /\ UNCHANGED dpb
  /\ UNCHANGED <<seqVars, fnVars, markVars, vppVars>>

\* ---------------------------------------------------- new_field_picture
\* the second field is given the first field's handle itself
new_field_picture_code_shared(first_pic, second) ==
  [ok |-> first_pic # NoHandle, handle |-> first_pic]

\* success is reported but no handle is attached to the second field
new_field_picture_code_unattached(first_pic, second) ==
  [ok |-> first_pic # NoHandle, handle |-> NoHandle]

\* gst_va_h264_dec_new_field_picture: a new handle on the first field's buffer
new_field_picture_code(first_pic, second) ==
  [ok |-> first_pic # NoHandle,
   handle |-> IF first_pic # NoHandle THEN second ELSE NoHandle]

new_field_picture(first, second) ==
  LET first_pic == user_data[first]
      c == new_field_picture_code(first_pic, second) IN
  /\ cur = 0
  /\ second # first
  /\ IsNextPic(second)
  /\ stage[first] = "ended"
  /\ first \in held
  /\ first_field[first] = 0
  /\ \A q \in Pics : first_field[q] # first
  /\ user_data' = [user_data EXCEPT ![second] = c.handle]
  /\ va' = [va EXCEPT ![second] =
             IF c.ok /\ c.handle = second
             THEN [gstbuffer |-> va[first_pic].gstbuffer, freed |-> 0,
                   log |-> <<>>]
             ELSE NoVa]
  /\ allocRet' = [allocRet EXCEPT ![second] = "none"]
  /\ afterFail' = [afterFail EXCEPT ![second] = allocFailed]
  /\ frameBuf' = [frameBuf EXCEPT ![second] = 0]
  /\ NewPicture(second, first)
  /\ Called("new_field_picture", second, c.ok)
  /\ UNCHANGED <<last_ret, dpb, allocFailed>>
  /\ UNCHANGED <<seqVars, fnVars, markVars, vppVars>>

\* ------------------------------------------ the engine abandons a picture
\* part of a step in which picture p is given up: the engine drops its
\* reference
Abandoned(p, v) ==
  /\ stage' = [stage EXCEPT ![p] = "abandoned"]
  /\ cur' = 0
  /\ held' = held \ {p}
  /\ refs' = RefsAfter(p, 1)
  /\ va' = VaAfterUnref(v, p, 1)

\* after new_picture / new_field_picture reported failure the engine may
\* give the picture up at once instead of going on with it
abandon_picture(p) ==
  /\ cur = p
  /\ stage[p] = "new"
  /\ ~ret.ok
  /\ Abandoned(p, va)
  /\ UNCHANGED <<last_ret, nslices, dpb, first_field, user_data, frameBuf,
                 allocRet, out, afterFail, ret, anyFailed, allocFailed>>
  /\ UNCHANGED <<seqVars, fnVars, markVars, vppVars>>

\* -------------------------------------------------------- start_picture
\* the answer to the scaling matrices is dropped
start_picture_code_iq_unchecked(a1, a2) ==
  [calls |-> <<[type |-> "PictureParameter", n |-> 0, ok |-> a1]>>
             \o (IF a1 THEN <<[type |-> "IQMatrix", n |-> 0, ok |-> a2]>>
                 ELSE <<>>),
   ok |-> a1]

\* the scaling matrices are submitted before the picture parameters
start_picture_code_iq_first(a1, a2) ==
  [calls |-> <<[type |-> "IQMatrix", n |-> 0, ok |-> a2]>>
             \o (IF a2 THEN <<[type |-> "PictureParameter", n |-> 0,
                               ok |-> a1]>> ELSE <<>>),
   ok |-> a1 /\ a2]

\* gst_va_h264_dec_start_picture: a1, a2 are the accelerator's answers to
\* the picture-parameter and the IQ-matrix buffer
start_picture_code(a1, a2) ==
  [calls |-> <<[type |-> "PictureParameter", n |-> 0, ok |-> a1]>>
             \o (IF a1 THEN <<[type |-> "IQMatrix", n |-> 0, ok |-> a2]>>
                 ELSE <<>>),
   ok |-> a1 /\ a2]

start_picture(p, a1, a2) ==
  LET c == start_picture_code(a1, a2)
      v == VaLogged(p, c.calls) IN
  /\ cur = p
  /\ stage[p] = "new"
  /\ IF c.ok
     THEN /\ stage' = [stage EXCEPT ![p] = "started"]
          /\ va' = v
          /\ UNCHANGED <<cur, held, refs>>
     ELSE Abandoned(p, v)
  /\ Called("start_picture", p, c.ok)
  /\ UNCHANGED <<last_ret, nslices, dpb, first_field, user_data, frameBuf,
                 allocRet, out, afterFail, allocFailed>>
  /\ UNCHANGED <<seqVars, fnVars, markVars, vppVars>>

\* --------------------------------------------------------- decode_slice
\* gst_va_h264_dec_decode_slice for the k-th slice of the picture: a is the
\* accelerator's answer to the slice buffer
decode_slice_code(k, a) ==
  [calls |-> <<[type |-> "Slice", n |-> k, ok |-> a]>>, ok |-> a]

decode_slice(p, a) ==
  LET k == nslices[p] + 1
      c == decode_slice_code(k, a)
      v == VaLogged(p, c.calls) IN
  /\ cur = p
  /\ stage[p] = "started"
  /\ nslices[p] < MaxSlices
  /\ nslices' = [nslices EXCEPT ![p] = k]
  /\ IF c.ok
     THEN /\ va' = v
          /\ UNCHANGED <<stage, cur, held, refs>>
     ELSE Abandoned(p, v)
  /\ Called("decode_slice", p, c.ok)
  /\ UNCHANGED <<last_ret, dpb, first_field, user_data, frameBuf, allocRet,
                 out, afterFail, allocFailed>>
  /\ UNCHANGED <<seqVars, fnVars, markVars, vppVars>>

\* ---------------------------------------------------------- end_picture
\* end_picture returns without running the accelerator
end_picture_code_no_decode(a) == [calls |-> <<>>, ok |-> a]

\* gst_va_h264_dec_end_picture: a is the result of gst_va_decoder_decode
end_picture_code(a) ==
  [calls |-> <<[type |-> "Execute", n |-> 0, ok |-> a]>>, ok |-> a]

\* isRef: the engine keeps the decoded picture in the DPB as a reference
end_picture(p, a, isRef) ==
  LET c == end_picture_code(a)
      v == VaLogged(p, c.calls) IN
  /\ cur = p
  /\ stage[p] = "started"
  /\ IF c.ok
     THEN /\ stage' = [stage EXCEPT ![p] = "ended"]
          /\ cur' = 0
          /\ va' = v
          /\ dpb' = IF isRef THEN dpb \cup {p} ELSE dpb
          /\ refs' = IF isRef THEN [refs EXCEPT ![p] = @ + 1] ELSE refs
          /\ UNCHANGED held
     ELSE Abandoned(p, v) /\ UNCHANGED dpb
  /\ Called("end_picture", p, c.ok)
  /\ UNCHANGED <<last_ret, nslices, first_field, user_data, frameBuf,
                 allocRet, out, afterFail, allocFailed>>
  /\ UNCHANGED <<seqVars, fnVars, markVars, vppVars>>

\* ------------------------------------------------------- output_picture
\* the drop path forgets to release the picture
output_picture_code_leak(lr, f) ==
  IF lr # GST_FLOW_OK
  THEN [unref |-> 0, drop |-> 1, finish |-> 0, ret |-> lr]
  ELSE [unref |-> 1, drop |-> 0, finish |-> 1, ret |-> f]

\* the recorded status is not looked at
output_picture_code_always_finish(lr, f) ==
  [unref |-> 1, drop |-> 0, finish |-> 1, ret |-> f]

\* gst_va_h264_dec_output_picture: lr is self->last_ret, f is what
\* gst_video_decoder_finish_frame returns
output_picture_code(lr, f) ==
  IF lr # GST_FLOW_OK
  THEN [unref |-> 1, drop |-> 1, finish |-> 0, ret |-> lr]
  ELSE [unref |-> 1, drop |-> 0, finish |-> 1, ret |-> f]

\* the engine hands over its reference to a decoded picture (a frame or a
\* first field) at any later time, but not while its second field is being
\* decoded
output_picture(p, f) ==
  LET c == output_picture_code(last_ret, f) IN
  /\ stage[p] = "ended"
  /\ p \in held
  /\ first_field[p] = 0
  /\ ~out[p].called
  /\ (cur # 0 => first_field[cur] # p)
  /\ out' = [out EXCEPT ![p] = [called |-> TRUE, unref |-> c.unref,
                                drop |-> c.drop, finish |-> c.finish,
                                ret |-> c.ret]]
  /\ held' = held \ {p}
  /\ refs' = RefsAfter(p, c.unref)
  /\ va' = VaAfterUnref(va, p, c.unref)
  /\ UNCHANGED <<last_ret, stage, nslices, cur, dpb, first_field, user_data,
                 frameBuf, allocRet, afterFail, ret, anyFailed, allocFailed>>
  /\ UNCHANGED <<seqVars, fnVars, markVars, vppVars>>

\* ------------------------------------------------- engine housekeeping
\* the engine releases a second field once the frame has been output
release_field(p) ==
  /\ first_field[p] # 0
  /\ p \in held
  /\ stage[p] = "ended"
  /\ out[first_field[p]].called
  /\ held' = held \ {p}
  /\ refs' = RefsAfter(p, 1)
  /\ va' = VaAfterUnref(va, p, 1)
  /\ UNCHANGED <<last_ret, stage, nslices, cur, dpb, first_field, user_data,
                 frameBuf, allocRet, out, afterFail, ret, anyFailed,
                 allocFailed>>
  /\ UNCHANGED <<seqVars, fnVars, markVars, vppVars>>

\* the DPB evicts a reference picture
dpb_remove(p) ==
  /\ p \in dpb
  /\ dpb' = dpb \ {p}
  /\ refs' = RefsAfter(p, 1)
  /\ va' = VaAfterUnref(va, p, 1)
  /\ UNCHANGED <<last_ret, stage, nslices, cur, held, first_field, user_data,
                 frameBuf, allocRet, out, afterFail, ret, anyFailed,
                 allocFailed>>
  /\ UNCHANGED <<seqVars, fnVars, markVars, vppVars>>

\* ------------------------------------------------ new_sequence, negotiate
new_sequence(sps, max_dpb_size, failAt) ==
  \E c \in {new_sequence_code(self, decoder, output_state, has_profile, sps,
                               max_dpb_size, failAt)} :
  /\ self' = c.self
  /\ decoder' = c.decoder
  /\ output_state' = c.output_state
  /\ failAt # "none" => c.negotiated
  /\ failAt = "close" => decoder.open
  /\ seqRet' = [called |-> TRUE, sps |-> sps, max_dpb_size |-> max_dpb_size,
                ok |-> c.ok, negotiated |-> c.negotiated]
  /\ UNCHANGED has_profile
  /\ UNCHANGED <<picVars, fnVars, markVars, vppVars>>

\* the base class asks for a negotiation on its own (a downstream
\* renegotiation request); what the call found and returned is kept
negotiate(failAt) ==
  \E c \in {negotiate_code(self, decoder, output_state, failAt)} :
  /\ self' = c.self
  /\ decoder' = c.decoder
  /\ output_state' = c.output_state
  /\ query' = [fn |-> "negotiate",
               arg |-> [need_negotiation |-> self.need_negotiation],
               result |-> c.ok]
  /\ UNCHANGED <<has_profile, seqRet>>
  /\ UNCHANGED <<picVars, markVars, vppVars>>

\* ------------------------------------------------- the helper functions
\* the largest DPB size for which Multiview High is a candidate
DpbLimit == 16

\* the SPS fields _get_profile reads
ProfileSpsSet ==
  {[BaseSps EXCEPT !.profile_idc = pr, !.constraint_set0_flag = c0,
                   !.constraint_set1_flag = c1, !.constraint_set2_flag = c2,
                   !.extension_type = ext, !.num_views_minus1 = v] :
     pr \in {"BASELINE", "MAIN", "EXTENDED", "HIGH", "HIGH10",
             "MULTIVIEW_HIGH", "STEREO_HIGH"},
     c0 \in {0, 1}, c1 \in {0, 1}, c2 \in {0, 1},
     ext \in {"NONE", "MVC"}, v \in {0, 1, 2}}

FnDpbSizes == {DpbLimit, DpbLimit + 1}

\* luma bit depths and chroma_format_idc values a parsed SPS can carry
BitDepths == {8, 9, 10, 12}
ChromaFormats == {0, 1, 2, 3}

VaProfiles ==
  {"VAProfileH264ConstrainedBaseline", "VAProfileH264Main",
   "VAProfileH264High", "VAProfileH264MultiviewHigh",
   "VAProfileH264StereoHigh"}

\* ----------------------------------------------- VAPictureH264 descriptors
\* VA_INVALID_ID is 0xffffffff: no surface has this id (surfaces are >= 0)
VA_INVALID_ID == -1

\* _init_vaapi_pic
_init_vaapi_pic ==
  [picture_id |-> VA_INVALID_ID, frame_idx |-> 0,
   flags |-> {"VA_PICTURE_H264_INVALID"}, TopFieldOrderCnt |-> 0,
   BottomFieldOrderCnt |-> 0]

\* gst_va_decode_picture_get_surface: the surface behind a handle
get_surface(va_pic) == va_pic

\* a long-term reference is described by its frame number
_fill_vaapi_pic_ref_frame_num(picture) ==
  [flags |-> IF picture.ref = "LONG"
             THEN {"VA_PICTURE_H264_LONG_TERM_REFERENCE"}
             ELSE IF picture.ref = "SHORT"
             THEN {"VA_PICTURE_H264_SHORT_TERM_REFERENCE"}
             ELSE {},
   frame_idx |-> picture.frame_num]

\* _fill_vaapi_pic: the reference flag and the frame index
_fill_vaapi_pic_ref(picture) ==
  IF picture.ref = "LONG"
  THEN [flags |-> {"VA_PICTURE_H264_LONG_TERM_REFERENCE"},
        frame_idx |-> picture.long_term_frame_idx]
  ELSE [flags |-> IF picture.ref = "SHORT"
                  THEN {"VA_PICTURE_H264_SHORT_TERM_REFERENCE"}
                  ELSE {},
        frame_idx |-> picture.frame_num]

\* the other field is merged whenever merging is asked for, paired or not
_fill_vaapi_pic_field_merge_unpaired(picture, merge_other_field) ==
  LET merge == merge_other_field IN
  IF picture.field = "FRAME"
  THEN [flags |-> {}, TopFieldOrderCnt |-> picture.top_field_order_cnt,
        BottomFieldOrderCnt |-> picture.bottom_field_order_cnt]
  ELSE IF picture.field = "TOP_FIELD"
  THEN [flags |-> IF merge THEN {} ELSE {"VA_PICTURE_H264_TOP_FIELD"},
        TopFieldOrderCnt |-> picture.top_field_order_cnt,
        BottomFieldOrderCnt |->
          IF merge THEN picture.other_field.bottom_field_order_cnt ELSE 0]
  ELSE IF picture.field = "BOTTOM_FIELD"
  THEN [flags |-> IF merge THEN {} ELSE {"VA_PICTURE_H264_BOTTOM_FIELD"},
        TopFieldOrderCnt |->
          IF merge THEN picture.other_field.top_field_order_cnt ELSE 0,
        BottomFieldOrderCnt |-> picture.bottom_field_order_cnt]
  ELSE [flags |-> {}, TopFieldOrderCnt |-> 0, BottomFieldOrderCnt |-> 0]

\* _fill_vaapi_pic: the field flag and the two order counts
_fill_vaapi_pic_field(picture, merge_other_field) ==
  LET merge == merge_other_field /\ picture.other_field.present IN
  IF picture.field = "FRAME"
  THEN [flags |-> {}, TopFieldOrderCnt |-> picture.top_field_order_cnt,
        BottomFieldOrderCnt |-> picture.bottom_field_order_cnt]
  ELSE IF picture.field = "TOP_FIELD"
  THEN [flags |-> IF merge THEN {} ELSE {"VA_PICTURE_H264_TOP_FIELD"},
        TopFieldOrderCnt |-> picture.top_field_order_cnt,
        BottomFieldOrderCnt |->
          IF merge THEN picture.other_field.bottom_field_order_cnt ELSE 0]
  ELSE IF picture.field = "BOTTOM_FIELD"
  THEN [flags |-> IF merge THEN {} ELSE {"VA_PICTURE_H264_BOTTOM_FIELD"},
        TopFieldOrderCnt |->
          IF merge THEN picture.other_field.top_field_order_cnt ELSE 0,
        BottomFieldOrderCnt |-> picture.bottom_field_order_cnt]
  ELSE [flags |-> {}, TopFieldOrderCnt |-> 0, BottomFieldOrderCnt |-> 0]

\* a picture without a surface handle is described like any other
_fill_vaapi_pic_unchecked_handle(picture, merge_other_field) ==
  LET r == _fill_vaapi_pic_ref(picture)
      f == _fill_vaapi_pic_field(picture, merge_other_field) IN
  [picture_id |-> get_surface(picture.va_pic), frame_idx |-> r.frame_idx,
   flags |-> r.flags \cup f.flags,
   TopFieldOrderCnt |-> f.TopFieldOrderCnt,
   BottomFieldOrderCnt |-> f.BottomFieldOrderCnt]

\* _fill_vaapi_pic
_fill_vaapi_pic(picture, merge_other_field) ==
  IF picture.va_pic = NoHandle THEN _init_vaapi_pic
  ELSE
    LET r == _fill_vaapi_pic_ref(picture)
        f == _fill_vaapi_pic_field(picture, merge_other_field) IN
    [picture_id |-> get_surface(picture.va_pic), frame_idx |-> r.frame_idx,
     flags |-> r.flags \cup f.flags,
     TopFieldOrderCnt |-> f.TopFieldOrderCnt,
     BottomFieldOrderCnt |-> f.BottomFieldOrderCnt]

\* the pictures handed to the descriptor builder: with and without a handle,
\* any reference marking, frame or field, with or without the other field
NoOtherField ==
  [present |-> FALSE, top_field_order_cnt |-> 0, bottom_field_order_cnt |-> 0]

OtherFields ==
  {NoOtherField,
   [present |-> TRUE, top_field_order_cnt |-> 20,
    bottom_field_order_cnt |-> 21]}

PictureSet ==
  [va_pic : {NoHandle, 1}, ref : {"NONE", "SHORT", "LONG"},
   long_term_frame_idx : {0, 3}, frame_num : {1, 5},
   field : {"FRAME", "TOP_FIELD", "BOTTOM_FIELD", "UNKNOWN"},
   top_field_order_cnt : {10, 12}, bottom_field_order_cnt : {11},
   other_field : OtherFields]

fill_vaapi_pic(picture, merge_other_field) ==
  /\ query.fn = "none"
  /\ query' = [fn |-> "_fill_vaapi_pic",
               arg |-> [picture |-> picture,
                        merge_other_field |-> merge_other_field],
               result |-> _fill_vaapi_pic(picture, merge_other_field)]
  /\ UNCHANGED <<picVars, seqVars, vppVars, markVars>>

get_profile(sps, max_dpb_size) ==
  /\ query.fn = "none"
  /\ query' = [fn |-> "_get_profile",
               arg |-> [sps |-> sps, max_dpb_size |-> max_dpb_size],
               result |-> _get_profile(has_profile, sps, max_dpb_size)]
  /\ UNCHANGED <<picVars, seqVars, vppVars, markVars>>

get_rtformat(bit_depth_luma, chroma_format_idc) ==
  /\ query.fn = "none"
  /\ query' = [fn |-> "_get_rtformat",
               arg |-> [bit_depth_luma |-> bit_depth_luma,
                        chroma_format_idc |-> chroma_format_idc],
               result |-> _get_rtformat(bit_depth_luma, chroma_format_idc)]
  /\ UNCHANGED <<picVars, seqVars, vppVars, markVars>>

\* va_reflist[32]: the slots of one reference picture list of a slice
RefListSlots == 32

\* GST_H264_PICTURE_IS_FRAME
GST_H264_PICTURE_IS_FRAME(picture) == picture.field = "FRAME"

\* a reference list without its missing pictures
_fill_ref_pic_list_skip_null(reflist, current_picture) ==
  LET present == SelectSeq(reflist, LAMBDA e : ~e.null) IN
  [i \in 1..RefListSlots |->
     IF i <= Len(present)
     THEN _fill_vaapi_pic(present[i].picture,
                          GST_H264_PICTURE_IS_FRAME(current_picture))
     ELSE _init_vaapi_pic]

\* _fill_ref_pic_list: slot i of the output is entry i of the list, a
\* missing (null) entry and every slot past the list are filler records
_fill_ref_pic_list(reflist, current_picture) ==
  [i \in 1..RefListSlots |->
     IF i <= Len(reflist)
     THEN IF ~reflist[i].null
          THEN _fill_vaapi_pic(reflist[i].picture,
                               GST_H264_PICTURE_IS_FRAME(current_picture))
          ELSE _init_vaapi_pic
     ELSE _init_vaapi_pic]

\* the pictures a reference list holds, and the missing picture
MaxRefList == 3

RefShortFrame ==
  [va_pic |-> 1, ref |-> "SHORT", long_term_frame_idx |-> 0, frame_num |-> 5,
   field |-> "FRAME", top_field_order_cnt |-> 10,
   bottom_field_order_cnt |-> 11, other_field |-> NoOtherField]

RefLongTop ==
  [va_pic |-> 1, ref |-> "LONG", long_term_frame_idx |-> 3, frame_num |-> 1,
   field |-> "TOP_FIELD", top_field_order_cnt |-> 12,
   bottom_field_order_cnt |-> 11,
   other_field |-> [present |-> TRUE, top_field_order_cnt |-> 20,
                    bottom_field_order_cnt |-> 21]]

RefShortBottom ==
  [va_pic |-> 1, ref |-> "SHORT", long_term_frame_idx |-> 0, frame_num |-> 1,
   field |-> "BOTTOM_FIELD", top_field_order_cnt |-> 10,
   bottom_field_order_cnt |-> 11, other_field |-> NoOtherField]

\* a picture whose new_picture failed: it has no surface handle
RefNoHandle == [RefShortFrame EXCEPT !.va_pic = NoHandle]

RefPictures == {RefShortFrame, RefLongTop, RefShortBottom, RefNoHandle}

NullEntry == [null |-> TRUE, picture |-> RefShortFrame]

RefEntries == {NullEntry} \cup {[null |-> FALSE, picture |-> p] : p \in RefPictures}

\* every list of up to MaxRefList entries, and one list that uses all slots
FullRefList ==
  [i \in 1..RefListSlots |->
     IF i % 3 = 0 THEN NullEntry
     ELSE [null |-> FALSE,
           picture |-> IF i % 3 = 1 THEN RefShortFrame ELSE RefLongTop]]

RefListSet ==
  UNION {[1..n -> RefEntries] : n \in 0..MaxRefList} \cup {FullRefList}

CurrentPictures == {RefShortFrame, RefLongTop}

fill_ref_pic_list(reflist, current_picture) ==
  /\ query.fn = "none"
  /\ query' = [fn |-> "_fill_ref_pic_list",
               arg |-> [reflist |-> reflist,
                        current_picture |-> current_picture],
               result |-> _fill_ref_pic_list(reflist, current_picture)]
  /\ UNCHANGED <<picVars, seqVars, vppVars, markVars>>


\* ------------------------------------------- VASliceParameterBufferH264
\* a guint holds 32 bits, written here as two 16-bit halves hi * Limb + lo
Limb == 65536

G32(hi, lo) == [hi |-> hi, lo |-> lo]

\* the value hi * Limb + lo reduced modulo 2^32, as unsigned arithmetic does
Wrap32(hi, lo) ==
  [hi |-> (hi + (lo \div Limb)) % Limb, lo |-> lo % Limb]

\* the 8 * epb_count term is left out
_get_slice_data_bit_offset_no_epb(header, nal_header_bytes) ==
  Wrap32(header.header_size.hi,
         8 * nal_header_bytes + header.header_size.lo)

\* _get_slice_data_bit_offset: 8 * nal_header_bytes + header_size
\* - epb_count * 8 in guint arithmetic
_get_slice_data_bit_offset(header, nal_header_bytes) ==
  LET epb_count == header.n_emulation_prevention_bytes IN
  Wrap32(header.header_size.hi - epb_count.hi * 8,
         8 * nal_header_bytes + header.header_size.lo - epb_count.lo * 8)

\* GST_H264_IS_P_SLICE and the like: the slice type is the header type
\* modulo 5, with P = 0, B = 1, I = 2, SP = 3, SI = 4
GST_H264_P_SLICE == 0

GST_H264_B_SLICE == 1

GST_H264_SP_SLICE == 3

GST_H264_IS_P_SLICE(header) == header.type % 5 = GST_H264_P_SLICE

GST_H264_IS_B_SLICE(header) == header.type % 5 = GST_H264_B_SLICE

GST_H264_IS_SP_SLICE(header) == header.type % 5 = GST_H264_SP_SLICE

\* the weight arrays have one entry per slot of a reference list
WeightSlots == RefListSlots

ZeroWeights == [i \in 0..(WeightSlots - 1) |-> 0]

ZeroChromaWeights == [i \in 0..(WeightSlots - 1) |-> <<0, 0>>]

ZeroRefPicList ==
  [i \in 1..RefListSlots |->
     [picture_id |-> 0, frame_idx |-> 0, flags |-> {}, TopFieldOrderCnt |-> 0,
      BottomFieldOrderCnt |-> 0]]

\* decode_slice: the designated initializer of slice_param; every field it
\* does not name is zero. slice_data_bit_offset is a 16-bit field of the
\* VA-API structure and keeps the low half of the computed offset
slice_param_init(header, nalu) ==
  [slice_data_size |-> nalu.size,
   slice_data_offset |-> 0,
   slice_data_flag |-> "VA_SLICE_DATA_FLAG_ALL",
   slice_data_bit_offset |->
     _get_slice_data_bit_offset(header, nalu.header_bytes).lo,
   first_mb_in_slice |-> header.first_mb_in_slice,
   slice_type |-> header.type % 5,
   direct_spatial_mv_pred_flag |-> header.direct_spatial_mv_pred_flag,
   cabac_init_idc |-> header.cabac_init_idc,
   slice_qp_delta |-> header.slice_qp_delta,
   disable_deblocking_filter_idc |-> header.disable_deblocking_filter_idc,
   slice_alpha_c0_offset_div2 |-> header.slice_alpha_c0_offset_div2,
   slice_beta_offset_div2 |-> header.slice_beta_offset_div2,
   num_ref_idx_l0_active_minus1 |-> header.num_ref_idx_l0_active_minus1,
   num_ref_idx_l1_active_minus1 |-> header.num_ref_idx_l1_active_minus1,
   RefPicList0 |-> ZeroRefPicList,
   RefPicList1 |-> ZeroRefPicList,
   luma_log2_weight_denom |-> 0,
   chroma_log2_weight_denom |-> 0,
   luma_weight_l0_flag |-> 0,
   luma_weight_l0 |-> ZeroWeights,
   luma_offset_l0 |-> ZeroWeights,
   chroma_weight_l0_flag |-> 0,
   chroma_weight_l0 |-> ZeroChromaWeights,
   chroma_offset_l0 |-> ZeroChromaWeights,
   luma_weight_l1_flag |-> 0,
   luma_weight_l1 |-> ZeroWeights,
   luma_offset_l1 |-> ZeroWeights,
   chroma_weight_l1_flag |-> 0,
   chroma_weight_l1 |-> ZeroChromaWeights,
   chroma_offset_l1 |-> ZeroChromaWeights]

\* explicit bi-prediction weights for any non-zero weighted_bipred_idc
num_weight_tables_any_bipred(header) ==
  IF header.pps.weighted_pred_flag = 1
     /\ (GST_H264_IS_P_SLICE(header) \/ GST_H264_IS_SP_SLICE(header))
  THEN 1
  ELSE IF header.pps.weighted_bipred_idc # 0 /\ GST_H264_IS_B_SLICE(header)
  THEN 2
  ELSE 0

\* _fill_pred_weight_table: num_weight_tables
num_weight_tables(header) ==
  IF header.pps.weighted_pred_flag = 1
     /\ (GST_H264_IS_P_SLICE(header) \/ GST_H264_IS_SP_SLICE(header))
  THEN 1
  ELSE IF header.pps.weighted_bipred_idc = 1 /\ GST_H264_IS_B_SLICE(header)
  THEN 2
  ELSE 0

\* the copy loop stops one entry early
copy_active_exclusive(dst, src, num_ref_idx_active_minus1) ==
  [i \in 0..(WeightSlots - 1) |->
     IF i < num_ref_idx_active_minus1 THEN src[i] ELSE dst[i]]

\* _fill_pred_weight_table: for (i = 0; i <= num_ref_idx_lX_active_minus1;
\* i++) dst[i] = src[i]
copy_active(dst, src, num_ref_idx_active_minus1) ==
  [i \in 0..(WeightSlots - 1) |->
     IF i <= num_ref_idx_active_minus1 THEN src[i] ELSE dst[i]]

\* _fill_pred_weight_table
_fill_pred_weight_table(header, slice_param) ==
  LET t == header.pred_weight_table
      chroma == header.pps.sequence.chroma_array_type # 0
      n0 == slice_param.num_ref_idx_l0_active_minus1
      n1 == slice_param.num_ref_idx_l1_active_minus1
      l0 == [slice_param EXCEPT
               !.luma_log2_weight_denom = t.luma_log2_weight_denom,
               !.chroma_log2_weight_denom = t.chroma_log2_weight_denom,
               !.luma_weight_l0_flag = 1,
               !.luma_weight_l0 = copy_active(@, t.luma_weight_l0, n0),
               !.luma_offset_l0 = copy_active(@, t.luma_offset_l0, n0),
               !.chroma_weight_l0_flag = IF chroma THEN 1 ELSE 0,
               !.chroma_weight_l0 =
                 IF chroma THEN copy_active(@, t.chroma_weight_l0, n0) ELSE @,
               !.chroma_offset_l0 =
                 IF chroma THEN copy_active(@, t.chroma_offset_l0, n0) ELSE @]
      l1 == [l0 EXCEPT
               !.luma_weight_l1_flag = 1,
               !.luma_weight_l1 = copy_active(@, t.luma_weight_l1, n1),
               !.luma_offset_l1 = copy_active(@, t.luma_offset_l1, n1),
               !.chroma_weight_l1_flag = IF chroma THEN 1 ELSE 0,
               !.chroma_weight_l1 =
                 IF chroma THEN copy_active(@, t.chroma_weight_l1, n1) ELSE @,
               !.chroma_offset_l1 =
                 IF chroma THEN copy_active(@, t.chroma_offset_l1, n1) ELSE @]
  IN IF num_weight_tables(header) = 0 THEN slice_param
     ELSE IF num_weight_tables(header) = 1 THEN l0
     ELSE l1

\* the explicit weights of a slice header: every entry differs from the
\* zero default and from the entries of the other tables
PredWeightTable ==
  [luma_log2_weight_denom |-> 5,
   chroma_log2_weight_denom |-> 6,
   luma_weight_l0 |-> [i \in 0..(WeightSlots - 1) |-> 100 + i],
   luma_offset_l0 |-> [i \in 0..(WeightSlots - 1) |-> -(1 + i)],
   chroma_weight_l0 |-> [i \in 0..(WeightSlots - 1) |-> <<200 + i, 300 + i>>],
   chroma_offset_l0 |-> [i \in 0..(WeightSlots - 1) |-> <<-(40 + i), 40 + i>>],
   luma_weight_l1 |-> [i \in 0..(WeightSlots - 1) |-> 400 + i],
   luma_offset_l1 |-> [i \in 0..(WeightSlots - 1) |-> 80 + i],
   chroma_weight_l1 |-> [i \in 0..(WeightSlots - 1) |-> <<500 + i, 600 + i>>],
   chroma_offset_l1 |-> [i \in 0..(WeightSlots - 1) |-> <<-(80 + i), -120>>]]

\* a P slice header of 40 bits with one emulation prevention byte
BaseHeader ==
  [type |-> 0, first_mb_in_slice |-> 0, direct_spatial_mv_pred_flag |-> 0,
   cabac_init_idc |-> 0, slice_qp_delta |-> 0,
   disable_deblocking_filter_idc |-> 0, slice_alpha_c0_offset_div2 |-> 0,
   slice_beta_offset_div2 |-> 0, num_ref_idx_l0_active_minus1 |-> 0,
   num_ref_idx_l1_active_minus1 |-> 0, header_size |-> G32(0, 40),
   n_emulation_prevention_bytes |-> G32(0, 1),
   pps |-> [weighted_pred_flag |-> 0, weighted_bipred_idc |-> 0,
            sequence |-> [chroma_array_type |-> 1]],
   pred_weight_table |-> PredWeightTable]

\* a NAL unit of 100 bytes found 4 bytes into the buffer "data"
BaseNalu == [data |-> "data", offset |-> 4, size |-> 100, header_bytes |-> 1]

SliceTypes == 0..9

ActiveRefs == {0, 1, WeightSlots - 1}

\* headers for the weight tables: every slice type, flag and idc, with and
\* without chroma, one or more active references
WeightHeaders ==
  {[BaseHeader EXCEPT !.type = ty, !.num_ref_idx_l0_active_minus1 = n0,
                      !.num_ref_idx_l1_active_minus1 = n1,
                      !.pps = [weighted_pred_flag |-> wp,
                               weighted_bipred_idc |-> wb,
                               sequence |-> [chroma_array_type |-> ca]]] :
     <<ty, n0, n1, wp, wb, ca>> \in
       SliceTypes \X ActiveRefs \X {0, 2} \X {0, 1} \X {0, 1, 2} \X {0, 1}}

fill_pred_weight_table(header) ==
  /\ query.fn = "none"
  /\ query' = [fn |-> "_fill_pred_weight_table",
               arg |-> [header |-> header,
                        slice_param |-> slice_param_init(header, BaseNalu)],
               result |-> _fill_pred_weight_table(header,
                            slice_param_init(header, BaseNalu))]
  /\ UNCHANGED <<picVars, seqVars, vppVars, markVars>>


\* header sizes and emulation prevention byte counts, small and near the
\* ends of the guint range; NAL headers of 1 byte, or 4 with an extension
HeaderSizes == {G32(0, 40), G32(0, 7), G32(0, Limb - 1), G32(1, 0),
                G32(Limb - 1, Limb - 1)}

EpbCounts == {G32(0, 0), G32(0, 1), G32(0, 6), G32(Limb \div 8, 0)}

NalHeaderBytes == {1, 4}

OffsetHeaders ==
  {[BaseHeader EXCEPT !.header_size = hs,
                      !.n_emulation_prevention_bytes = epb] :
     hs \in HeaderSizes, epb \in EpbCounts}

OffsetNalus == {[BaseNalu EXCEPT !.header_bytes = b] : b \in NalHeaderBytes}

get_slice_data_bit_offset(header, nalu) ==
  /\ query.fn = "none"
  /\ query' = [fn |-> "_get_slice_data_bit_offset",
               arg |-> [header |-> header, nalu |-> nalu],
               result |->
                 [offset |-> _get_slice_data_bit_offset(header,
                                                        nalu.header_bytes),
                  slice_data_bit_offset |->
                    slice_param_init(header, nalu).slice_data_bit_offset]]
  /\ UNCHANGED <<picVars, seqVars, vppVars, markVars>>


\* ------------------------------------------------- VAIQMatrixBufferH264
\* the zig-zag scans of the 4x4 and 8x8 blocks: entry i is the raster
\* position of the i-th coefficient in zig-zag order
zigzag_4x4 ==
  <<0, 1, 4, 8, 5, 2, 3, 6, 9, 12, 13, 10, 7, 11, 14, 15>>

zigzag_8x8 ==
  <<0, 1, 8, 16, 9, 2, 3, 10, 17, 24, 32, 25, 18, 11, 4, 5,
    12, 19, 26, 33, 40, 48, 41, 34, 27, 20, 13, 6, 7, 14, 21, 28,
    35, 42, 49, 56, 57, 50, 43, 36, 29, 22, 15, 23, 30, 37, 44, 51,
    58, 59, 52, 45, 38, 31, 39, 46, 53, 60, 61, 54, 47, 55, 62, 63>>

\* out_quant[zigzag[i]] = quant[i]
get_raster_from_zigzag(quant, zigzag) ==
  [j \in 0..(Len(zigzag) - 1) |->
     quant[CHOOSE i \in 0..(Len(zigzag) - 1) : zigzag[i + 1] = j]]

\* out_quant[i] = quant[zigzag[i]]
get_zigzag_from_raster(quant, zigzag) ==
  [i \in 0..(Len(zigzag) - 1) |-> quant[zigzag[i + 1]]]

\* the list is copied in its zig-zag order
gst_h264_quant_matrix_4x4_get_raster_from_zigzag_copy(quant) == quant

gst_h264_quant_matrix_4x4_get_raster_from_zigzag(quant) ==
  get_raster_from_zigzag(quant, zigzag_4x4)

gst_h264_quant_matrix_4x4_get_zigzag_from_raster(quant) ==
  get_zigzag_from_raster(quant, zigzag_4x4)

gst_h264_quant_matrix_8x8_get_raster_from_zigzag(quant) ==
  get_raster_from_zigzag(quant, zigzag_8x8)

gst_h264_quant_matrix_8x8_get_zigzag_from_raster(quant) ==
  get_zigzag_from_raster(quant, zigzag_8x8)

\* start_picture: iq_matrix starts as zeros; all 6 lists of 4x4 and the
\* first n lists of 8x8 are converted, n = 6 for chroma_format_idc 3, else 2
ScalingLists == 6

iq_matrix_n(pps) == IF pps.sequence.chroma_format_idc = 3 THEN 6 ELSE 2

start_picture_iq_matrix(pps) ==
  [ScalingList4x4 |->
     [i \in 0..(ScalingLists - 1) |->
        gst_h264_quant_matrix_4x4_get_raster_from_zigzag(
          pps.scaling_lists_4x4[i])],
   ScalingList8x8 |->
     [i \in 0..(ScalingLists - 1) |->
        IF i < iq_matrix_n(pps)
        THEN gst_h264_quant_matrix_8x8_get_raster_from_zigzag(
               pps.scaling_lists_8x8[i])
        ELSE [k \in 0..63 |-> 0]]]

\* scaling lists of a PPS: entries all different within a list, the flat
\* default list, and a list with repeated entries
ScalingListKinds == {"distinct", "flat", "repeating"}

ScalingListOf(kind, i, size) ==
  [k \in 0..(size - 1) |->
     IF kind = "distinct" THEN 1 + ((k + 5 * i) % size)
     ELSE IF kind = "flat" THEN 16
     ELSE 1 + ((k + i) % 7)]

PpsSet ==
  {[scaling_lists_4x4 |->
      [i \in 0..(ScalingLists - 1) |-> ScalingListOf(kind, i, 16)],
    scaling_lists_8x8 |->
      [i \in 0..(ScalingLists - 1) |-> ScalingListOf(kind, i, 64)],
    sequence |-> [chroma_format_idc |-> c]] :
     kind \in ScalingListKinds, c \in ChromaFormats}

fill_iq_matrix(pps) ==
  /\ query.fn = "none"
  /\ query' = [fn |-> "start_picture_iq_matrix",
               arg |-> [pps |-> pps],
               result |-> start_picture_iq_matrix(pps)]
  /\ UNCHANGED <<picVars, seqVars, vppVars, markVars>>


\* ------------------------------------ ReferenceFrames of start_picture
\* pic_param.ReferenceFrames has 16 slots
ReferenceFrameSlots == 16

\* gst_h264_dpb_get_pictures_short_term_ref and _long_term_ref: the
\* pictures of the DPB with that marking, in the order of the DPB
gst_h264_dpb_get_pictures_short_term_ref(d) ==
  SelectSeq(d, LAMBDA p : p.ref = "SHORT")

gst_h264_dpb_get_pictures_long_term_ref(d) ==
  SelectSeq(d, LAMBDA p : p.ref = "LONG")

\* the long-term references are taken first
start_picture_reference_frames_long_first(d) ==
  LET long == gst_h264_dpb_get_pictures_long_term_ref(d)
      short == gst_h264_dpb_get_pictures_short_term_ref(d)
      n1 == IF Len(long) < ReferenceFrameSlots THEN Len(long)
            ELSE ReferenceFrameSlots
      n2 == IF n1 + Len(short) < ReferenceFrameSlots THEN n1 + Len(short)
            ELSE ReferenceFrameSlots IN
  [i \in 1..ReferenceFrameSlots |->
     IF i <= n1 THEN _fill_vaapi_pic(long[i], TRUE)
     ELSE IF i <= n2 THEN _fill_vaapi_pic(short[i - n1], TRUE)
     ELSE _init_vaapi_pic]

\* start_picture, reference frames: the first loop takes short-term
\* references while ref_frame_idx < 16 (n1 of them), the second loop
\* long-term references while ref_frame_idx < 16 (up to slot n2), the third
\* loop initialises the slots left
start_picture_reference_frames(d) ==
  LET short == gst_h264_dpb_get_pictures_short_term_ref(d)
      long == gst_h264_dpb_get_pictures_long_term_ref(d)
      n1 == IF Len(short) < ReferenceFrameSlots THEN Len(short)
            ELSE ReferenceFrameSlots
      n2 == IF n1 + Len(long) < ReferenceFrameSlots THEN n1 + Len(long)
            ELSE ReferenceFrameSlots IN
  [i \in 1..ReferenceFrameSlots |->
     IF i <= n1 THEN _fill_vaapi_pic(short[i], TRUE)
     ELSE IF i <= n2 THEN _fill_vaapi_pic(long[i - n1], TRUE)
     ELSE _init_vaapi_pic]

\* a DPB of n pictures, the i-th with frame number and long-term index i:
\* all short-term, all long-term, or long-term, short-term and unused in
\* turn; every second picture is a top field with its bottom field
DpbMarkings == {"short", "long", "mixed"}

DpbLengths == {0, 2, 5, 16, 17, 40}

DpbOf(n, marking) ==
  [i \in 1..n |->
     [va_pic |-> 1,
      ref |-> IF marking = "short" THEN "SHORT"
              ELSE IF marking = "long" THEN "LONG"
              ELSE IF i % 3 = 1 THEN "LONG"
              ELSE IF i % 3 = 2 THEN "SHORT" ELSE "NONE",
      long_term_frame_idx |-> i, frame_num |-> i,
      field |-> IF i % 2 = 0 THEN "TOP_FIELD" ELSE "FRAME",
      top_field_order_cnt |-> 2 * i, bottom_field_order_cnt |-> 2 * i + 1,
      other_field |-> IF i % 2 = 0
                      THEN [present |-> TRUE, top_field_order_cnt |-> 0,
                            bottom_field_order_cnt |-> 2 * i + 1]
                      ELSE NoOtherField]]

DpbSet == {DpbOf(n, m) : n \in DpbLengths, m \in DpbMarkings}

fill_reference_frames(d) ==
  /\ query.fn = "none"
  /\ query' = [fn |-> "start_picture_reference_frames",
               arg |-> [dpb |-> d],
               result |-> start_picture_reference_frames(d)]
  /\ UNCHANGED <<picVars, seqVars, vppVars, markVars>>


\* ------------------------------------- the scratch array of start_picture
\* g_array_set_size, as used here: the array is cut to length elements
g_array_set_size(array, length) == SubSeq(array, 1, length)

\* the long-term references stay in the array
start_picture_ref_list_kept(ref_list, d) ==
  LET short == g_array_set_size(ref_list, 0)
                 \o gst_h264_dpb_get_pictures_short_term_ref(d) IN
  g_array_set_size(short, 0) \o gst_h264_dpb_get_pictures_long_term_ref(d)

\* start_picture, self->ref_list: emptied, given the short-term references,
\* emptied, given the long-term references, emptied
start_picture_ref_list(ref_list, d) ==
  LET short == g_array_set_size(ref_list, 0)
                 \o gst_h264_dpb_get_pictures_short_term_ref(d)
      long == g_array_set_size(short, 0)
                \o gst_h264_dpb_get_pictures_long_term_ref(d) IN
  g_array_set_size(long, 0)

\* gst_va_h264_dec_init: g_array_sized_new gives an empty array
InitRefList == <<>>

\* start_picture with its scratch array: the array it leaves, the reference
\* frames it submits and its answer
start_picture_scratch(d, a1, a2) ==
  /\ query.fn = "none"
  /\ query' = [fn |-> "start_picture",
               arg |-> [dpb |-> d, ref_list |-> InitRefList, a1 |-> a1,
                        a2 |-> a2],
               result |->
                 [ref_list |-> start_picture_ref_list(InitRefList, d),
                  ReferenceFrames |-> start_picture_reference_frames(d),
                  ok |-> start_picture_code(a1, a2).ok]]
  /\ UNCHANGED <<picVars, seqVars, vppVars, markVars>>


\* ------------------------------------------ decode_slice, the submission
\* the slice data is handed over from the start of the buffer and the
\* offset of the NAL unit is put into the parameters
decode_slice_submission_whole_buffer(header, nalu, l0, l1, picture, accepted) ==
  [slice_param |->
     _fill_pred_weight_table(header,
       [slice_param_init(header, nalu) EXCEPT
          !.slice_data_offset = nalu.offset,
          !.RefPicList0 = _fill_ref_pic_list(l0, picture),
          !.RefPicList1 = _fill_ref_pic_list(l1, picture)]),
   va_pic |-> picture.va_pic,
   data |-> [buffer |-> nalu.data, at |-> 0],
   size |-> nalu.size,
   ok |-> accepted]

\* gst_va_h264_dec_decode_slice: the parameters, and what is handed to
\* gst_va_decoder_add_slice_buffer, whose answer (accepted) is returned;
\* the pointer nalu.data + nalu.offset is the position "at" in the buffer;
\* l0 and l1 are ref_pic_list0 and ref_pic_list1
decode_slice_submission(header, nalu, l0, l1, picture, accepted) ==
  [slice_param |->
     _fill_pred_weight_table(header,
       [slice_param_init(header, nalu) EXCEPT
          !.RefPicList0 = _fill_ref_pic_list(l0, picture),
          !.RefPicList1 = _fill_ref_pic_list(l1, picture)]),
   va_pic |-> picture.va_pic,
   data |-> [buffer |-> nalu.data, at |-> nalu.offset],
   size |-> nalu.size,
   ok |-> accepted]

\* NAL units at the start of and inside their buffer, of one byte and more
SliceNalus ==
  {[BaseNalu EXCEPT !.offset = o, !.size = n] : o \in {0, 4}, n \in {1, 100}}

\* a P slice without weights and a B slice with both weight tables
SliceHeaders ==
  {BaseHeader,
   [BaseHeader EXCEPT !.type = 6, !.num_ref_idx_l0_active_minus1 = 1,
                      !.num_ref_idx_l1_active_minus1 = 1,
                      !.pps = [weighted_pred_flag |-> 0,
                               weighted_bipred_idc |-> 1,
                               sequence |-> [chroma_array_type |-> 1]]]}

SliceRefLists ==
  {<<>>, <<[null |-> FALSE, picture |-> RefShortFrame], NullEntry>>}

\* the picture being decoded, with a handle or (after a failed new_picture)
\* without one
SlicePictures == {RefShortFrame, [RefLongTop EXCEPT !.va_pic = NoHandle]}

decode_slice_submit(header, nalu, l0, l1, picture, accepted) ==
  /\ query.fn = "none"
  /\ query' = [fn |-> "decode_slice",
               arg |-> [header |-> header, nalu |-> nalu,
                        ref_pic_list0 |-> l0, ref_pic_list1 |-> l1,
                        picture |-> picture, accepted |-> accepted],
               result |-> decode_slice_submission(header, nalu, l0, l1,
                                                  picture, accepted)]
  /\ UNCHANGED <<picVars, seqVars, vppVars, markVars>>

\* ------------------------------------- one picture, described repeatedly
\* the picture as new_picture leaves it: a frame that is no reference yet
CreatedPicture ==
  [va_pic |-> 1, ref |-> "NONE", long_term_frame_idx |-> 0, frame_num |-> 1,
   field |-> "FRAME", top_field_order_cnt |-> 10,
   bottom_field_order_cnt |-> 11, other_field |-> NoOtherField]

\* pic_param and slice_param are locals of their callbacks: nothing is
\* described before the first call
NoDesc ==
  [cb |-> "none", as_current |-> FALSE, picture |-> CreatedPicture,
   earlier |-> CreatedPicture, fills |-> 0, CurrPic |-> _init_vaapi_pic,
   ReferenceFrames |-> <<>>, RefPicList0 |-> <<>>]

InitMark == ref_picture = CreatedPicture /\ va_desc = NoDesc

\* the markings the engine gives a picture: reference marking (sliding
\* window, memory management operations), frame number, long-term index
MarkRefs == {"NONE", "SHORT", "LONG"}

MarkFrameNums == {1, 5}

MarkLongTermIdx == {0, 3}

\* the engine changes the marking of the kept picture between callbacks
set_reference(ref, frame_num, long_term_frame_idx) ==
  /\ ref_picture' = [ref_picture EXCEPT !.ref = ref, !.frame_num = frame_num,
                       !.long_term_frame_idx = long_term_frame_idx]
  /\ UNCHANGED <<picVars, seqVars, fnVars, vppVars, va_desc>>

\* the descriptor of the earlier call is used again
picture_read_cached(earlier, picture) ==
  IF earlier.fills > 0 THEN earlier.picture ELSE picture

\* _fill_vaapi_pic reads ref, frame_num and long_term_frame_idx through the
\* GstH264Picture pointer of this call; nothing of an earlier call is kept
picture_read(earlier, picture) == picture

MaxFills == 2

\* start_picture describes the picture as CurrPic when it is the current
\* picture, and in ReferenceFrames when the DPB holds it
start_picture_describe(as_current) ==
  /\ \E pic \in {picture_read(va_desc, ref_picture)} :
       va_desc' =
         [cb |-> "start_picture", as_current |-> as_current,
          picture |-> ref_picture, earlier |-> va_desc.picture,
          fills |-> IF va_desc.fills < MaxFills THEN va_desc.fills + 1
                    ELSE MaxFills,
          CurrPic |-> _fill_vaapi_pic(IF as_current THEN pic
                                      ELSE RefShortFrame, FALSE),
          ReferenceFrames |->
            start_picture_reference_frames(IF as_current THEN <<>>
                                           ELSE <<pic>>),
          RefPicList0 |-> <<>>]
  /\ UNCHANGED <<picVars, seqVars, fnVars, vppVars, ref_picture>>

\* decode_slice describes the picture in RefPicList0 of a slice that refers
\* to it
decode_slice_describe ==
  /\ \E pic \in {picture_read(va_desc, ref_picture)} :
       va_desc' =
         [cb |-> "decode_slice", as_current |-> FALSE,
          picture |-> ref_picture, earlier |-> va_desc.picture,
          fills |-> IF va_desc.fills < MaxFills THEN va_desc.fills + 1
                    ELSE MaxFills,
          CurrPic |-> _init_vaapi_pic,
          ReferenceFrames |-> <<>>,
          RefPicList0 |->
            decode_slice_submission(BaseHeader, BaseNalu,
              <<[null |-> FALSE, picture |-> pic]>>, <<>>, RefShortFrame,
              TRUE).slice_param.RefPicList0]
  /\ UNCHANGED <<picVars, seqVars, fnVars, vppVars, ref_picture>>


\* ===================================================== post-processor
\* GstVaVpp with its filter and its base transform: the conversion flags
\* op_flags, the pending rebuild of the filter buffers, the denoise value
\* and the value the filter buffers were last built from, the three
\* directions and the orientation set on the filter, the passthrough mode
\* and pending source reconfiguration of the base transform, and the
\* filter's cropping switch (variable vpp); where the streaming thread
\* stands inside before_transform and a colour balance caller inside
\* _set_cb_val, with the values they have read (variable vppThread)
VPP_CONVERT ==
  {"VPP_CONVERT_SIZE", "VPP_CONVERT_FORMAT", "VPP_CONVERT_FILTERS",
   "VPP_CONVERT_DIRECTION", "VPP_CONVERT_FEATURE", "VPP_CONVERT_CROP",
   "VPP_CONVERT_DUMMY"}

DenoiseDefault == 0

DenoiseValues == {DenoiseDefault, 1}

HueDefault == 0

HueValues == {HueDefault, 1}

Directions ==
  {"GST_VIDEO_ORIENTATION_IDENTITY", "GST_VIDEO_ORIENTATION_90R",
   "GST_VIDEO_ORIENTATION_AUTO"}

\* gst_va_vpp_init; the base transform starts out of passthrough and the
\* filter without cropping
InitVpp ==
  /\ vpp = [rebuild_filters |-> FALSE, op_flags |-> {},
            denoise |-> DenoiseDefault, built |-> DenoiseDefault,
            hue |-> HueDefault,
            direction |-> "GST_VIDEO_ORIENTATION_IDENTITY",
            prev_direction |-> "GST_VIDEO_ORIENTATION_IDENTITY",
            tag_direction |-> "GST_VIDEO_ORIENTATION_AUTO",
            orientation |-> "GST_VIDEO_ORIENTATION_IDENTITY",
            passthrough |-> FALSE, reconfigure_src |-> FALSE,
            cropping |-> FALSE]
  /\ vppRet = [called |-> FALSE, crop_meta |-> FALSE]
  /\ vppThread = [pc |-> "idle", value |-> DenoiseDefault,
                  cb_value |-> HueDefault,
                  from |-> [denoise |-> DenoiseDefault, hue |-> HueDefault],
                  cb_pc |-> "idle"]

\* op_flags |= flag when on, op_flags &= ~flag otherwise
SetFlag(v, flag, on) ==
  [v EXCEPT !.op_flags = IF on THEN @ \cup {flag} ELSE @ \ {flag}]

\* gst_va_vpp_update_passthrough
gst_va_vpp_update_passthrough(v, reconf) ==
  LET old == v.passthrough
      new == v.op_flags = {} IN
  IF old # new
  THEN [v EXCEPT !.reconfigure_src = @ \/ reconf, !.passthrough = new]
  ELSE v

\* _update_properties_unlocked; set_ok is the filter's answer to
\* gst_va_filter_set_orientation
_update_properties_unlocked(v, set_ok) ==
  LET auto == v.direction = "GST_VIDEO_ORIENTATION_AUTO" IN
  IF (~auto /\ v.direction # v.prev_direction)
     \/ (auto /\ v.tag_direction # v.prev_direction)
  THEN LET direction == IF auto THEN v.tag_direction ELSE v.direction IN
       IF ~set_ok
       THEN SetFlag(IF auto
                    THEN [v EXCEPT !.tag_direction = v.prev_direction]
                    ELSE [v EXCEPT !.direction = v.prev_direction],
                    "VPP_CONVERT_DIRECTION", FALSE)
       ELSE SetFlag([v EXCEPT !.prev_direction = direction,
                              !.orientation = direction,
                              !.reconfigure_src = TRUE],
                    "VPP_CONVERT_DIRECTION", TRUE)
  ELSE SetFlag(v, "VPP_CONVERT_DIRECTION", FALSE)

\* _build_filters after gst_va_filter_drop_filter_buffers: a filter buffer
\* is added for a denoise value other than the default when the driver has
\* the filter (caps) and takes the buffer (add_ok)
_build_filters(v, caps, add_ok) ==
  LET apply == caps /\ v.denoise # DenoiseDefault /\ add_ok IN
  SetFlag([v EXCEPT !.built = IF apply THEN v.denoise ELSE DenoiseDefault],
          "VPP_CONVERT_FILTERS", apply)

\* gst_va_vpp_rebuild_filters
gst_va_vpp_rebuild_filters(v, caps, add_ok) ==
  IF ~v.rebuild_filters THEN v
  ELSE [_build_filters(v, caps, add_ok) EXCEPT !.rebuild_filters = FALSE]

\* the passthrough mode is read before it is updated
gst_va_vpp_before_transform_code_stale(v, crop_meta, caps, add_ok) ==
  LET u == gst_va_vpp_update_passthrough(
             gst_va_vpp_rebuild_filters(v, caps, add_ok), TRUE)
      is_passthrough == v.passthrough
      c == SetFlag(u, "VPP_CONVERT_CROP", ~is_passthrough /\ crop_meta) IN
  [c EXCEPT !.cropping = "VPP_CONVERT_CROP" \in c.op_flags]

\* gst_va_vpp_before_transform, no controller attached to the element
gst_va_vpp_before_transform_code(v, crop_meta, caps, add_ok) ==
  LET u == gst_va_vpp_update_passthrough(
             gst_va_vpp_rebuild_filters(v, caps, add_ok), TRUE)
      is_passthrough == u.passthrough
      c == SetFlag(u, "VPP_CONVERT_CROP", ~is_passthrough /\ crop_meta) IN
  [c EXCEPT !.cropping = "VPP_CONVERT_CROP" \in c.op_flags]

gst_va_vpp_before_transform(crop_meta, caps, add_ok) ==
  /\ vpp' = gst_va_vpp_before_transform_code(vpp, crop_meta, caps, add_ok)
  /\ vppRet' = [called |-> TRUE, crop_meta |-> crop_meta]
  /\ UNCHANGED <<picVars, seqVars, fnVars, markVars, vppThread>>

\* gst_va_vpp_set_property: denoise
gst_va_vpp_set_property_denoise(value, set_ok) ==
  /\ vpp' = gst_va_vpp_update_passthrough(
              _update_properties_unlocked(
                [vpp EXCEPT !.denoise = value, !.rebuild_filters = TRUE],
                set_ok),
              FALSE)
  /\ UNCHANGED <<picVars, seqVars, fnVars, markVars, vppRet, vppThread>>

\* gst_va_vpp_set_property: video-direction
gst_va_vpp_set_property_video_dir(direction, set_ok) ==
  /\ vpp' = gst_va_vpp_update_passthrough(
              _update_properties_unlocked(
                [vpp EXCEPT
                   !.prev_direction =
                     IF direction = "GST_VIDEO_ORIENTATION_AUTO"
                     THEN vpp.tag_direction ELSE vpp.direction,
                   !.direction = direction],
                set_ok),
              FALSE)
  /\ UNCHANGED <<picVars, seqVars, fnVars, markVars, vppRet, vppThread>>

\* gst_va_vpp_set_property: disable-passthrough
gst_va_vpp_set_property_disable_passthrough(disable_passthrough, set_ok) ==
  /\ vpp' = gst_va_vpp_update_passthrough(
              _update_properties_unlocked(
                SetFlag(vpp, "VPP_CONVERT_DUMMY", disable_passthrough),
                set_ok),
              FALSE)
  /\ UNCHANGED <<picVars, seqVars, fnVars, markVars, vppRet, vppThread>>

\* gst_va_vpp_set_info: the formats, sizes and caps features of input and
\* output differ or not; info_ok is the filter's answer to
\* gst_va_filter_set_video_info
gst_va_vpp_set_info(format, size, feature, info_ok) ==
  /\ \E u \in {SetFlag(SetFlag(SetFlag(vpp, "VPP_CONVERT_FORMAT", format),
                               "VPP_CONVERT_SIZE", size),
                       "VPP_CONVERT_FEATURE", feature)} :
       vpp' = IF info_ok THEN gst_va_vpp_update_passthrough(u, FALSE) ELSE u
  /\ UNCHANGED <<picVars, seqVars, fnVars, markVars, vppRet, vppThread>>

\* gst_va_vpp_sink_event: a tag event with an image orientation
gst_va_vpp_sink_event(orientation, set_ok) ==
  /\ vpp' = IF vpp.direction # "GST_VIDEO_ORIENTATION_AUTO" THEN vpp
            ELSE gst_va_vpp_update_passthrough(
                   _update_properties_unlocked(
                     [vpp EXCEPT !.tag_direction = orientation], set_ok),
                   FALSE)
  /\ UNCHANGED <<picVars, seqVars, fnVars, markVars, vppRet, vppThread>>

\* gst_va_vpp_update_properties
gst_va_vpp_update_properties(caps, add_ok, set_ok) ==
  /\ vpp' = _update_properties_unlocked(
              gst_va_vpp_rebuild_filters(vpp, caps, add_ok), set_ok)
  /\ UNCHANGED <<picVars, seqVars, fnVars, markVars, vppRet, vppThread>>


\* ---------------------------------- before_transform with other threads
\* gst_va_vpp_rebuild_filters: the atomic read of rebuild_filters; when it
\* is set the filter buffers are dropped and _build_filters starts
before_transform_rebuild_test ==
  /\ vppThread.pc = "idle"
  /\ vppThread' = [vppThread EXCEPT
                     !.pc = IF vpp.rebuild_filters THEN "get_filter_value"
                            ELSE "update_passthrough"]
  /\ UNCHANGED <<picVars, seqVars, fnVars, markVars, vpp, vppRet>>

\* _get_filter_value: the denoise value is copied under the object lock
before_transform_get_filter_value ==
  /\ vppThread.pc = "get_filter_value"
  /\ vppThread' = [vppThread EXCEPT !.pc = "get_filter_cb_value",
                                    !.value = vpp.denoise]
  /\ UNCHANGED <<picVars, seqVars, fnVars, markVars, vpp, vppRet>>

\* _get_filter_cb_value: the hue is copied under the object lock
before_transform_get_filter_cb_value ==
  /\ vppThread.pc = "get_filter_cb_value"
  /\ vppThread' = [vppThread EXCEPT !.pc = "op_flags", !.cb_value = vpp.hue]
  /\ UNCHANGED <<picVars, seqVars, fnVars, markVars, vpp, vppRet>>

\* _build_filters, its end: the buffers are those of the copied values and
\* VPP_CONVERT_FILTERS is set under the object lock when one was added
before_transform_build_flags(caps, add_ok) ==
  /\ vppThread.pc = "op_flags"
  /\ LET denoised == caps /\ vppThread.value # DenoiseDefault /\ add_ok
         balanced == caps /\ vppThread.cb_value # HueDefault /\ add_ok IN
     vpp' = SetFlag([vpp EXCEPT !.built = IF denoised THEN vppThread.value
                                          ELSE DenoiseDefault],
                    "VPP_CONVERT_FILTERS", denoised \/ balanced)
  /\ vppThread' = [vppThread EXCEPT
                     !.pc = "rebuild_done",
                     !.from = [denoise |-> vppThread.value,
                               hue |-> vppThread.cb_value]]
  /\ UNCHANGED <<picVars, seqVars, fnVars, markVars, vppRet>>

\* gst_va_vpp_rebuild_filters, its end: rebuild_filters is cleared
before_transform_rebuild_done ==
  /\ vppThread.pc = "rebuild_done"
  /\ vpp' = [vpp EXCEPT !.rebuild_filters = FALSE]
  /\ vppThread' = [vppThread EXCEPT !.pc = "update_passthrough"]
  /\ UNCHANGED <<picVars, seqVars, fnVars, markVars, vppRet>>

\* gst_va_vpp_before_transform after the rebuild: passthrough and cropping
before_transform_finish(crop_meta) ==
  /\ vppThread.pc = "update_passthrough"
  /\ \E u \in {gst_va_vpp_update_passthrough(vpp, TRUE)} :
       \E c \in {SetFlag(u, "VPP_CONVERT_CROP",
                         ~u.passthrough /\ crop_meta)} :
         vpp' = [c EXCEPT !.cropping = "VPP_CONVERT_CROP" \in c.op_flags]
  /\ vppRet' = [called |-> TRUE, crop_meta |-> crop_meta]
  /\ vppThread' = [vppThread EXCEPT !.pc = "idle"]
  /\ UNCHANGED <<picVars, seqVars, fnVars, markVars>>

\* _set_cb_val: the new value is stored under the object lock
set_cb_val_store(new_value) ==
  /\ vppThread.cb_pc = "idle"
  /\ vpp' = [vpp EXCEPT !.hue = new_value]
  /\ vppThread' = [vppThread EXCEPT
                     !.cb_pc = IF new_value # vpp.hue THEN "changed"
                               ELSE "idle"]
  /\ UNCHANGED <<picVars, seqVars, fnVars, markVars, vppRet>>

\* _set_cb_val: after the lock is released a changed value is announced and
\* rebuild_filters is set
set_cb_val_changed ==
  /\ vppThread.cb_pc = "changed"
  /\ vpp' = [vpp EXCEPT !.rebuild_filters = TRUE]
  /\ vppThread' = [vppThread EXCEPT !.cb_pc = "idle"]
  /\ UNCHANGED <<picVars, seqVars, fnVars, markVars, vppRet>>

vars == <<picVars, seqVars, fnVars, vppVars, markVars>>

\* the picture callbacks run against a negotiated session
Init == InitPic /\ InitSeq /\ query = NoQuery /\ InitVpp /\ InitMark

\* a device with any set of profiles, and no call made yet
InitFn ==
  /\ InitPic
  /\ self = InitSelf
  /\ decoder = ClosedDecoder
  /\ output_state = NoOutputState
  /\ has_profile \in SUBSET VaProfiles
  /\ seqRet = [called |-> FALSE, sps |-> BaseSps, max_dpb_size |-> 0,
               ok |-> FALSE, negotiated |-> FALSE]
  /\ query = NoQuery
  /\ InitVpp
  /\ InitMark

Next ==
  \/ \E p \in Pics, r \in AllocRets : new_picture(p, r)
  \/ \E p, q \in Pics : new_field_picture(p, q)
  \/ \E p \in Pics : abandon_picture(p)
  \/ \E p \in Pics, a1, a2 \in BOOLEAN : start_picture(p, a1, a2)
  \/ \E p \in Pics, a \in BOOLEAN : decode_slice(p, a)
  \/ \E p \in Pics, a, isRef \in BOOLEAN : end_picture(p, a, isRef)
  \/ \E p \in Pics, f \in FinishRets : output_picture(p, f)
  \/ \E p \in Pics : release_field(p)
  \/ \E p \in Pics : dpb_remove(p)

Spec == Init /\ [][Next]_vars

\* the sequence-level callbacks
NextSeq ==
  \/ \E sps \in SpsSet, m \in DpbSizes, f \in FailAts : new_sequence(sps, m, f)
  \/ \E f \in FailAts : negotiate(f)

SpecSeq == Init /\ [][NextSeq]_vars

\* a session: sequences change between pictures while earlier pictures
\* still wait for output
SessionSpsSet == {SpsOf("MAIN", 16, "none", 1), SpsOf("HIGH", 32, "right", 0)}

SessionDpbSizes == {4}

NextSession ==
  \/ Next
  \/ \E sps \in SessionSpsSet, m \in SessionDpbSizes :
       cur = 0 /\ new_sequence(sps, m, "none")

SpecSession == Init /\ [][NextSession]_vars

\* one call of a helper function on any input
NextFn ==
  \/ \E sps \in ProfileSpsSet, m \in FnDpbSizes : get_profile(sps, m)
  \/ \E d \in BitDepths, c \in ChromaFormats : get_rtformat(d, c)
  \/ \E pic \in PictureSet, merge \in BOOLEAN : fill_vaapi_pic(pic, merge)
  \/ \E l \in RefListSet, c \in CurrentPictures : fill_ref_pic_list(l, c)
  \/ \E h \in WeightHeaders : fill_pred_weight_table(h)
  \/ \E h \in OffsetHeaders, n \in OffsetNalus :
       get_slice_data_bit_offset(h, n)
  \/ \E pps \in PpsSet : fill_iq_matrix(pps)
  \/ \E d \in DpbSet : fill_reference_frames(d)
  \/ \E d \in DpbSet, a1, a2 \in BOOLEAN : start_picture_scratch(d, a1, a2)
  \/ \E h \in SliceHeaders, n \in SliceNalus, l0, l1 \in SliceRefLists,
        pic \in SlicePictures, accepted \in BOOLEAN :
       decode_slice_submit(h, n, l0, l1, pic, accepted)

SpecFn == InitFn /\ [][NextFn]_vars

\* the post-processor: properties, caps and tag events change between
\* buffers
Orientations == {"GST_VIDEO_ORIENTATION_IDENTITY", "GST_VIDEO_ORIENTATION_90R"}

NextVpp ==
  \/ \E crop_meta, caps, add_ok \in BOOLEAN :
       gst_va_vpp_before_transform(crop_meta, caps, add_ok)
  \/ \E value \in DenoiseValues, set_ok \in BOOLEAN :
       gst_va_vpp_set_property_denoise(value, set_ok)
  \/ \E d \in Directions, set_ok \in BOOLEAN :
       gst_va_vpp_set_property_video_dir(d, set_ok)
  \/ \E b, set_ok \in BOOLEAN :
       gst_va_vpp_set_property_disable_passthrough(b, set_ok)
  \/ \E format, size, feature, info_ok \in BOOLEAN :
       gst_va_vpp_set_info(format, size, feature, info_ok)
  \/ \E o \in Orientations, set_ok \in BOOLEAN :
       gst_va_vpp_sink_event(o, set_ok)
  \/ \E caps, add_ok, set_ok \in BOOLEAN :
       gst_va_vpp_update_properties(caps, add_ok, set_ok)

SpecVpp == Init /\ [][NextVpp]_vars

\* the post-processor with the streaming thread inside before_transform
\* while application threads set the denoise property and the hue
NextVppThreads ==
  \/ before_transform_rebuild_test
  \/ before_transform_get_filter_value
  \/ before_transform_get_filter_cb_value
  \/ \E caps, add_ok \in BOOLEAN : before_transform_build_flags(caps, add_ok)
  \/ before_transform_rebuild_done
  \/ \E crop_meta \in BOOLEAN : before_transform_finish(crop_meta)
  \/ \E value \in DenoiseValues : gst_va_vpp_set_property_denoise(value, TRUE)
  \/ \E new_value \in HueValues : set_cb_val_store(new_value)
  \/ set_cb_val_changed

SpecVppThreads == Init /\ [][NextVppThreads]_vars

\* a kept picture: the engine changes its marking between the callbacks
\* that describe it
NextMark ==
  \/ \E ref \in MarkRefs, n \in MarkFrameNums, l \in MarkLongTermIdx :
       set_reference(ref, n, l)
  \/ \E as_current \in BOOLEAN : start_picture_describe(as_current)
  \/ decode_slice_describe

SpecMark == Init /\ [][NextMark]_vars

\* ======================================================================
\* Claims about the picture callbacks, checked under Spec
\* ======================================================================

AllocFailedFor(p) == allocRet[p] \notin {"none", GST_FLOW_OK}

\* C1: a picture whose own output-buffer allocation failed is dropped by
\* output_picture, which returns the failure recorded for that picture and
\* never the finish-frame result, whatever new_picture calls for other
\* pictures came in between.
CX_C1 ==
  \A p \in Pics :
    (out[p].called /\ AllocFailedFor(p)) =>
      /\ out[p].drop = 1
      /\ out[p].finish = 0
      /\ out[p].ret = allocRet[p]

\* C2: a picture whose own allocation succeeded is handed downstream through
\* finish-frame by output_picture and is never dropped on account of another
\* picture's allocation failure.
CX_C2 ==
  \A p \in Pics :
    (out[p].called /\ allocRet[p] = GST_FLOW_OK) =>
      (out[p].finish = 1 /\ out[p].drop = 0)

\* C3: every output_picture call releases the picture's reference exactly
\* once and calls exactly one of drop-frame and finish-frame, on the
\* recorded-failure path as on the normal path; the reference count of a
\* picture therefore always equals the references the engine and the DPB
\* still own.
TH_C3 ==
  \A p \in Pics :
    /\ out[p].called => (out[p].unref = 1 /\ out[p].drop + out[p].finish = 1)
    /\ stage[p] # "none" =>
         refs[p] = (IF p \in held THEN 1 ELSE 0) + (IF p \in dpb THEN 1 ELSE 0)

\* both paths of output_picture have been taken
WIT_C3 ==
  \E p, q \in Pics : out[p].called /\ out[p].drop = 1 /\ out[q].called
                     /\ out[q].finish = 1

\* the accelerator calls a picture with k accepted slices makes up to and
\* including its execute
ExpectedLog(k) ==
  <<"PictureParameter", "IQMatrix">> \o [i \in 1..k |-> "Slice"] \o <<"Execute">>

\* the log is a beginning of the expected order, with the slices numbered in
\* call order
OrderedLog(L, k) ==
  /\ Len(L) <= k + 3
  /\ \A i \in 1..Len(L) :
       /\ L[i].type = ExpectedLog(k)[i]
       /\ L[i].type = "Slice" => L[i].n = i - 2

\* C4: the accelerator calls made for a picture's handle come in the order
\* picture parameters, IQ matrix, one slice buffer per decode_slice call in
\* call order, then exactly one execute, and nothing follows the execute.
TH_C4 ==
  \A p \in Pics :
    (stage[p] # "none" /\ user_data[p] # NoHandle /\ refs[p] > 0) =>
      LET L == va[user_data[p]].log IN
      /\ OrderedLog(L, nslices[p])
      /\ stage[p] = "new" => L = <<>>
      /\ stage[p] = "started" => Len(L) = nslices[p] + 2
      /\ stage[p] = "ended" =>
           /\ Len(L) = nslices[p] + 3
           /\ \A i \in 1..Len(L) : L[i].ok

\* a picture with a handle went through all steps with the most slices
WIT_C4 ==
  \E p \in Pics : /\ stage[p] = "ended"
                  /\ user_data[p] # NoHandle
                  /\ refs[p] > 0
                  /\ nslices[p] = MaxSlices
                  /\ Len(va[user_data[p]].log) = MaxSlices + 3

\* a step in which output_picture is called for p
OutputStep(p) == ~out[p].called /\ out'[p].called

CX_C6 ==
  \A p \in Pics :
    (afterFail[p] /\ allocRet[p] = GST_FLOW_OK) =>
      /\ (cur = p /\ stage[p] = "new") => last_ret = GST_FLOW_OK
      /\ out[p].called => (out[p].finish = 1 /\ out[p].ret \in FinishRets)

\* the picture the last new_picture call was made for
LastNewPicture(p) == ret.cb = "new_picture" /\ ret.pic = p /\ stage[p] # "none"

TH_C8 ==
  /\ \A h \in Pics : va[h].freed <= 1
  /\ \A p \in Pics :
       (stage[p] # "none" /\ user_data[p] # NoHandle) =>
         LET h == user_data[p] IN
         /\ va[h].freed = (IF refs[p] = 0 THEN 1 ELSE 0)
         /\ Alive(p) => va[h].freed = 0
         /\ \A q \in Pics : (q # p /\ stage[q] # "none") => user_data[q] # h
         /\ (first_field[p] # 0 /\ refs[p] > 0) =>
              /\ user_data[first_field[p]] # NoHandle
              /\ va[h].gstbuffer = va[user_data[first_field[p]]].gstbuffer
              /\ va[h].gstbuffer # 0

\* both handles of a field pair have been freed, the first field's one only
\* after the DPB let go of it
WIT_C8 ==
  \E p, q \in Pics :
    /\ first_field[q] = p
    /\ user_data[p] # NoHandle /\ user_data[q] # NoHandle
    /\ user_data[p] # user_data[q]
    /\ va[user_data[p]].freed = 1 /\ va[user_data[q]].freed = 1
    /\ out[p].called

\* --------------------------------------------------------------- C9
\* C9: whenever new_sequence has returned success, the accelerator is open
\* and configured with exactly the session's profile, surface format and
\* coded dimensions.
CX_C9 ==
  (seqRet.called /\ seqRet.ok) =>
    /\ decoder.open
    /\ config_is_equal(decoder, self.profile, self.rt_format,
                       self.coded_width, self.coded_height)

DiffersOnlyInMbs(a, b) ==
  /\ a.frame_mbs_only_flag # b.frame_mbs_only_flag
  /\ [a EXCEPT !.frame_mbs_only_flag = b.frame_mbs_only_flag] = b

\* C11: after a successful new_sequence, a new_sequence whose SPS differs
\* only in frame_mbs_only_flag (same maximum DPB size) requests a
\* renegotiation and flips the interlaced flag, while profile, format, coded
\* and display dimensions and DPB capacity keep their values.
CX_C11 ==
  [][(/\ seqRet.called /\ seqRet.ok
      /\ DiffersOnlyInMbs(seqRet.sps, seqRet'.sps)
      /\ seqRet'.max_dpb_size = seqRet.max_dpb_size)
     => (/\ seqRet'.negotiated
         /\ self'.interlaced = ~self.interlaced
         /\ self'.profile = self.profile
         /\ self'.rt_format = self.rt_format
         /\ self'.coded_width = self.coded_width
         /\ self'.coded_height = self.coded_height
         /\ self'.width = self.width
         /\ self'.height = self.height
         /\ self'.dpb_size = self.dpb_size)]_vars

\* --------------------------------------------------------------- C12
NoPadding ==
  [padding_left |-> 0, padding_right |-> 0, padding_top |-> 0,
   padding_bottom |-> 0]

\* the padding the session works with: none while no alignment is needed
SessionPadding == IF self.need_valign THEN self.valign ELSE NoPadding

\* the SPS has a supported profile and a hardware format
SpsSupported(sps, m) ==
  /\ _get_profile(has_profile, sps, m) # VAProfileNone
  /\ _get_rtformat(sps.bit_depth_luma_minus8 + 8, sps.chroma_format_idc)
       # RT_FORMAT_NONE

\* format, resolution, interlacing or crop padding of the SPS differ from
\* what the accelerator runs with and the session holds
SpsChanged(sps, m) ==
  \/ ~config_is_equal(decoder, _get_profile(has_profile, sps, m),
                      _get_rtformat(sps.bit_depth_luma_minus8 + 8,
                                    sps.chroma_format_idc),
                      sps.width, sps.height)
  \/ self.width # Display(sps).width \/ self.height # Display(sps).height
  \/ self.interlaced # (sps.frame_mbs_only_flag = 0)
  \/ SessionPadding # Padding(Display(sps))

\* the renegotiation fails at the step failAt names
Rejected(failAt) ==
  failAt \in {"open", "set_frame_size", "downstream"}
  \/ (failAt = "close" /\ decoder.open)

\* C12: in every reachable state and for every SPS, new_sequence fails
\* exactly when no candidate profile is supported, the depth/chroma pair has
\* no hardware format, or a renegotiation it requested is rejected; for a
\* supported SPS it requests renegotiation exactly when format, resolution,
\* interlacing or crop padding changed.
CX_C12 ==
  \A sps \in SpsSet, m \in DpbSizes, f \in FailAts :
    LET c == new_sequence_code(self, decoder, output_state, has_profile,
                               sps, m, f) IN
    /\ c.negotiated <=> (SpsSupported(sps, m) /\ SpsChanged(sps, m))
    /\ c.ok <=> (SpsSupported(sps, m) /\ ~(c.negotiated /\ Rejected(f)))

\* --------------------------------------------------------------- C13
AnyConstraintSet(sps) ==
  sps.constraint_set0_flag = 1 \/ sps.constraint_set1_flag = 1
  \/ sps.constraint_set2_flag = 1

\* C13: for a Baseline SPS with a constraint-set flag the selected profile
\* is ConstrainedBaseline when the accelerator supports it, else Main when
\* it supports Main, else none; a Baseline SPS without any flag gets none.
TH_C13 ==
  (query.fn = "_get_profile" /\ query.arg.sps.profile_idc = "BASELINE") =>
    query.result =
      IF ~AnyConstraintSet(query.arg.sps) THEN VAProfileNone
      ELSE IF "VAProfileH264ConstrainedBaseline" \in has_profile
      THEN "VAProfileH264ConstrainedBaseline"
      ELSE IF "VAProfileH264Main" \in has_profile THEN "VAProfileH264Main"
      ELSE VAProfileNone

\* Baseline with constraint_set1_flag on a device that has only Constrained
\* Baseline: the fallback is selected
WIT_C13 ==
  /\ query.fn = "_get_profile"
  /\ query.arg.sps.profile_idc = "BASELINE"
  /\ query.arg.sps.constraint_set1_flag = 1
  /\ has_profile = {"VAProfileH264ConstrainedBaseline"}
  /\ query.result = "VAProfileH264ConstrainedBaseline"

\* --------------------------------------------------------------- C14
\* the candidates in preference order
Candidates(sps, max_dpb_size) ==
  DirectProfiles(sps) \o FallbackProfiles(sps, max_dpb_size)

\* C14: the selected profile is the first candidate the accelerator
\* supports, and none exactly when no candidate is supported; so it is a
\* supported profile or none.
TH_C14 ==
  query.fn = "_get_profile" =>
    LET cands == Candidates(query.arg.sps, query.arg.max_dpb_size) IN
    /\ query.result \in has_profile \cup {VAProfileNone}
    /\ query.result = VAProfileNone
         <=> \A j \in 1..Len(cands) : cands[j] \notin has_profile
    /\ query.result # VAProfileNone
         => \E j \in 1..Len(cands) :
              /\ cands[j] = query.result
              /\ \A k \in 1..(j - 1) : cands[k] \notin has_profile

\* the first candidate is not supported and a later one is selected
WIT_C14 ==
  /\ query.fn = "_get_profile"
  /\ Len(Candidates(query.arg.sps, query.arg.max_dpb_size)) >= 2
  /\ Candidates(query.arg.sps, query.arg.max_dpb_size)[1] \notin has_profile
  /\ query.result # VAProfileNone

\* --------------------------------------------------------------- C15
\* C15: for a Multiview High SPS with exactly 2 views on an accelerator that
\* supports both StereoHigh and MultiviewHigh, StereoHigh is selected.
CX_C15 ==
  (/\ query.fn = "_get_profile"
   /\ query.arg.sps.profile_idc = "MULTIVIEW_HIGH"
   /\ _get_num_views(query.arg.sps) = 2
   /\ {"VAProfileH264StereoHigh", "VAProfileH264MultiviewHigh"}
        \subseteq has_profile)
  => query.result = "VAProfileH264StereoHigh"

\* --------------------------------------------------------------- C16
\* C16: a (luma bit depth, chroma_format_idc) pair has a hardware format
\* exactly when the depth is 8 or 10 and the chroma format is 4:2:0, 4:2:2
\* or 4:4:4 (chroma_format_idc 1, 2, 3); any other pair has none.
CX_C16 ==
  query.fn = "_get_rtformat" =>
    (query.result # RT_FORMAT_NONE
       <=> (/\ query.arg.bit_depth_luma \in {8, 10}
            /\ query.arg.chroma_format_idc \in {1, 2, 3}))

\* --------------------------------------------------------------- C17
MaxOf(a, b) == IF a >= b THEN a ELSE b

\* C17: in every reachable state and for every input, new_sequence leaves
\* the DPB capacity at max(capacity before, reported max_dpb_size), failed
\* or not, and when it returns success the buffer-pool minimum is the DPB
\* capacity + 4; the session rests in such a state after a successful call.
TH_C17 ==
  /\ \A sps \in SpsSet, m \in DpbSizes, f \in FailAts :
       LET c == new_sequence_code(self, decoder, output_state, has_profile,
                                  sps, m, f) IN
       /\ c.self.dpb_size = MaxOf(self.dpb_size, m)
       /\ c.self.dpb_size >= self.dpb_size
       /\ c.ok => c.self.min_buffers = c.self.dpb_size + 4
  /\ seqRet.called => self.dpb_size >= seqRet.max_dpb_size
  /\ (seqRet.called /\ seqRet.ok) => self.min_buffers = self.dpb_size + 4

\* a successful new_sequence reported a smaller DPB size than the capacity
\* an earlier one had set: the capacity stayed
WIT_C17 ==
  /\ seqRet.called /\ seqRet.ok
  /\ self.dpb_size > seqRet.max_dpb_size
  /\ self.min_buffers = self.dpb_size + 4

\* --------------------------------------------------------------- C18
SessionKept ==
  /\ self'.profile = self.profile
  /\ self'.rt_format = self.rt_format
  /\ self'.coded_width = self.coded_width
  /\ self'.coded_height = self.coded_height
  /\ self'.width = self.width
  /\ self'.height = self.height
  /\ self'.dpb_size = self.dpb_size
  /\ self'.interlaced = self.interlaced

\* C18: every picture callback step (and every engine step between them)
\* leaves profile, format, coded and display dimensions, DPB capacity and
\* interlaced flag as they are; a step that changes one of them is a
\* new_sequence call.
TH_C18 ==
  [][/\ Next => SessionKept
     /\ ~SessionKept =>
          /\ seqRet'.called
          /\ \E f \in FailAts :
               new_sequence(seqRet'.sps, seqRet'.max_dpb_size, f)]_vars

\* a picture has gone through new_picture .. output_picture while the
\* session holds the High, interlaced, cropped configuration
WIT_C18 ==
  /\ seqRet.called /\ seqRet.ok
  /\ self.profile = "VAProfileH264High" /\ self.interlaced
  /\ self.width < self.coded_width
  /\ \E p \in Pics : out[p].called /\ out[p].finish = 1

\* --------------------------------------------------------------- C19
\* the step creates picture q as the second field of picture f
FieldStep(f, q) == cur = 0 /\ cur' = q /\ first_field'[q] = f

\* C19: new_field_picture leaves the recorded allocation status alone and
\* allocates no output buffer; when the first field has a handle it succeeds
\* and attaches to the second field a new handle, other than the first
\* field's, bound to the first field's output buffer; when the first field
\* has none it fails and attaches nothing.
TH_C19 ==
  [][\A f, q \in Pics :
       FieldStep(f, q) =>
         /\ ret' = [cb |-> "new_field_picture", pic |-> q,
                    ok |-> user_data[f] # NoHandle]
         /\ last_ret' = last_ret
         /\ frameBuf' = [frameBuf EXCEPT ![q] = 0]
         /\ IF user_data[f] # NoHandle
            THEN /\ user_data'[q] \notin {NoHandle, user_data[f]}
                 /\ \A p \in Pics :
                      (p # q /\ Alive(p)) => user_data[p] # user_data'[q]
                 /\ va'[user_data'[q]].gstbuffer = va[user_data[f]].gstbuffer
                 /\ va'[user_data'[q]].gstbuffer # 0
                 /\ va'[user_data[f]] = va[user_data[f]]
            ELSE user_data'[q] = NoHandle]_vars

\* a second field has just been given its own handle on the first field's
\* buffer
WIT_C19 ==
  /\ ret.cb = "new_field_picture" /\ ret.ok
  /\ cur = ret.pic
  /\ first_field[ret.pic] # 0
  /\ user_data[ret.pic] # NoHandle
  /\ user_data[ret.pic] # user_data[first_field[ret.pic]]
  /\ va[user_data[ret.pic]].gstbuffer
       = va[user_data[first_field[ret.pic]]].gstbuffer
  /\ frameBuf[ret.pic] = 0

\* --------------------------------------------------------------- C20
\* C20: the descriptor of a picture that has a surface handle carries, for a
\* long-term reference, the long-term flag and frame index
\* long_term_frame_idx, and for a short-term reference the short-term flag
\* and frame index frame_num.
TH_C20 ==
  (query.fn = "_fill_vaapi_pic" /\ query.arg.picture.va_pic # NoHandle) =>
    LET picture == query.arg.picture
        d == query.result IN
    /\ picture.ref = "LONG" =>
         /\ "VA_PICTURE_H264_LONG_TERM_REFERENCE" \in d.flags
         /\ d.frame_idx = picture.long_term_frame_idx
    /\ picture.ref = "SHORT" =>
         /\ "VA_PICTURE_H264_SHORT_TERM_REFERENCE" \in d.flags
         /\ d.frame_idx = picture.frame_num

\* a long-term reference whose long_term_frame_idx is not its frame_num
WIT_C20 ==
  /\ query.fn = "_fill_vaapi_pic"
  /\ query.arg.picture.va_pic # NoHandle
  /\ query.arg.picture.ref = "LONG"
  /\ query.arg.picture.long_term_frame_idx # query.arg.picture.frame_num
  /\ query.result.frame_idx = query.arg.picture.long_term_frame_idx
  /\ "VA_PICTURE_H264_LONG_TERM_REFERENCE" \in query.result.flags

\* ---------------------------------------------------------------------
\* the fully-invalid filler record
FillerRecord ==
  [picture_id |-> VA_INVALID_ID, frame_idx |-> 0,
   flags |-> {"VA_PICTURE_H264_INVALID"}, TopFieldOrderCnt |-> 0,
   BottomFieldOrderCnt |-> 0]

\* C21: for every reference list of length N <= 32 the filler writes exactly
\* 32 slots; slot i < N holds the descriptor of list entry i, in list order,
\* neither reordered nor deduplicated; a null entry gives the fully-invalid
\* filler record (invalid surface id, frame index 0, invalid flag, zero
\* order counts) at its own position; slots N..31 are filler records.
TH_C21 ==
  query.fn = "_fill_ref_pic_list" =>
    LET l == query.arg.reflist
        merge == query.arg.current_picture.field = "FRAME"
        out32 == query.result IN
    Len(l) <= 32 =>
      /\ DOMAIN out32 = 1..32
      /\ \A i \in 1..32 :
           out32[i] = IF i > Len(l) \/ l[i].null THEN FillerRecord
                      ELSE _fill_vaapi_pic(l[i].picture, merge)

\* a list with a null entry between two entries of the same picture
WIT_C21 ==
  /\ query.fn = "_fill_ref_pic_list"
  /\ Len(query.arg.reflist) = 3
  /\ ~query.arg.reflist[1].null
  /\ query.arg.reflist[2].null
  /\ query.arg.reflist[3] = query.arg.reflist[1]
  /\ query.result[1] # FillerRecord
  /\ query.result[2] = FillerRecord
  /\ query.result[3] = query.result[1]
  /\ query.result[4] = FillerRecord

\* a list that uses all 32 slots
WIT_C21_full ==
  /\ query.fn = "_fill_ref_pic_list"
  /\ Len(query.arg.reflist) = 32


\* ---------------------------------------------------------------------
\* prediction is weighted for this slice
Weighted(header) ==
  \/ header.pps.weighted_pred_flag = 1 /\ header.type % 5 \in {0, 3}
  \/ header.pps.weighted_bipred_idc = 1 /\ header.type % 5 = 1

AllZero(f) == \A i \in DOMAIN f : f[i] = 0

AllZeroPairs(f) == \A i \in DOMAIN f : f[i] = <<0, 0>>

\* C22: when neither (weighted_pred_flag set and slice P or SP) nor
\* (weighted_bipred_idc = 1 and slice B) holds, the weighted-prediction
\* filler changes no field of the slice parameters: denominators, weight
\* flags, weights and offsets of both lists keep their zero defaults.
TH_C22 ==
  (query.fn = "_fill_pred_weight_table" /\ ~Weighted(query.arg.header)) =>
    /\ query.result = query.arg.slice_param
    /\ query.result.luma_log2_weight_denom = 0
    /\ query.result.chroma_log2_weight_denom = 0
    /\ query.result.luma_weight_l0_flag = 0
    /\ query.result.chroma_weight_l0_flag = 0
    /\ query.result.luma_weight_l1_flag = 0
    /\ query.result.chroma_weight_l1_flag = 0
    /\ AllZero(query.result.luma_weight_l0)
    /\ AllZero(query.result.luma_offset_l0)
    /\ AllZero(query.result.luma_weight_l1)
    /\ AllZero(query.result.luma_offset_l1)
    /\ AllZeroPairs(query.result.chroma_weight_l0)
    /\ AllZeroPairs(query.result.chroma_offset_l0)
    /\ AllZeroPairs(query.result.chroma_weight_l1)
    /\ AllZeroPairs(query.result.chroma_offset_l1)

\* a B slice with implicit bi-prediction weights (idc 2) and the P flag set
WIT_C22 ==
  /\ query.fn = "_fill_pred_weight_table"
  /\ query.arg.header.type % 5 = 1
  /\ query.arg.header.pps.weighted_bipred_idc = 2
  /\ query.arg.header.pps.weighted_pred_flag = 1
  /\ query.result = query.arg.slice_param

\* entries 0..n of dst are those of src, the others hold the default
CopiedUpTo(dst, src, n, zero) ==
  \A i \in 0..31 : dst[i] = IF i <= n THEN src[i] ELSE zero

ListFilled(r, t, n, chroma, lw, lo, cw, co) ==
  /\ CopiedUpTo(r[lw], t[lw], n, 0)
  /\ CopiedUpTo(r[lo], t[lo], n, 0)
  /\ CopiedUpTo(r[cw], t[cw], IF chroma THEN n ELSE -1, <<0, 0>>)
  /\ CopiedUpTo(r[co], t[co], IF chroma THEN n ELSE -1, <<0, 0>>)

\* C29: when prediction is weighted, a P/SP slice gets one weight table and
\* a B slice two. The list-0 luma flag is 1 and luma weights and offsets are
\* copied for indices 0..num_ref_idx_l0_active_minus1; chroma weights and
\* offsets (2 components each) are copied iff chroma_array_type # 0; list 1
\* is filled the same way for 0..num_ref_idx_l1_active_minus1 only with two
\* tables, and stays at its defaults with one table.
TH_C29 ==
  (query.fn = "_fill_pred_weight_table" /\ Weighted(query.arg.header)) =>
    LET h == query.arg.header
        r == query.result
        t == h.pred_weight_table
        chroma == h.pps.sequence.chroma_array_type # 0
        two == h.type % 5 = 1
    IN
    /\ r.luma_weight_l0_flag = 1
    /\ r.chroma_weight_l0_flag = (IF chroma THEN 1 ELSE 0)
    /\ ListFilled(r, t, h.num_ref_idx_l0_active_minus1, chroma,
                  "luma_weight_l0", "luma_offset_l0",
                  "chroma_weight_l0", "chroma_offset_l0")
    /\ two =>
         /\ r.luma_weight_l1_flag = 1
         /\ r.chroma_weight_l1_flag = (IF chroma THEN 1 ELSE 0)
         /\ ListFilled(r, t, h.num_ref_idx_l1_active_minus1, chroma,
                       "luma_weight_l1", "luma_offset_l1",
                       "chroma_weight_l1", "chroma_offset_l1")
    /\ ~two =>
         /\ r.luma_weight_l1_flag = 0
         /\ r.chroma_weight_l1_flag = 0
         /\ ListFilled(r, t, -1, FALSE,
                       "luma_weight_l1", "luma_offset_l1",
                       "chroma_weight_l1", "chroma_offset_l1")

\* a B slice with two tables, chroma, two active references in list 0 and
\* three in list 1
WIT_C29 ==
  /\ query.fn = "_fill_pred_weight_table"
  /\ query.arg.header.type % 5 = 1
  /\ query.arg.header.pps.weighted_bipred_idc = 1
  /\ query.arg.header.pps.sequence.chroma_array_type # 0
  /\ query.arg.header.num_ref_idx_l0_active_minus1 = 1
  /\ query.arg.header.num_ref_idx_l1_active_minus1 = 2
  /\ query.result.luma_weight_l0[1] # 0
  /\ query.result.luma_weight_l0[2] = 0
  /\ query.result.chroma_offset_l1[2] # <<0, 0>>
  /\ query.result.chroma_offset_l1[3] = <<0, 0>>


\* ---------------------------------------------------------------------
\* the exact integer value of 8 * nal_header_bytes + header_size_bits
\* - 8 * emulation_prevention_byte_count is ExactHi * 2^16 + ExactLo with
\* ExactLo in 0..2^16 - 1
ExactSum ==
  8 * query.arg.nalu.header_bytes + query.arg.header.header_size.lo
  - 8 * query.arg.header.n_emulation_prevention_bytes.lo

ExactHi ==
  query.arg.header.header_size.hi
  - 8 * query.arg.header.n_emulation_prevention_bytes.hi
  + (ExactSum \div 65536)

ExactLo == ExactSum % 65536

SameEntries(a, b) ==
  /\ DOMAIN a = DOMAIN b
  /\ \A v \in {a[k] : k \in DOMAIN a} :
       Cardinality({k \in DOMAIN a : a[k] = v})
         = Cardinality({k \in DOMAIN b : b[k] = v})

\* the same positions move whatever the entries are
SameMove(a, ra, b, rb) ==
  \A j \in DOMAIN ra : \E k \in DOMAIN a : ra[j] = a[k] /\ rb[j] = b[k]

RoundTrips4x4(L) ==
  /\ gst_h264_quant_matrix_4x4_get_zigzag_from_raster(
       gst_h264_quant_matrix_4x4_get_raster_from_zigzag(L)) = L
  /\ gst_h264_quant_matrix_4x4_get_raster_from_zigzag(
       gst_h264_quant_matrix_4x4_get_zigzag_from_raster(L)) = L

RoundTrips8x8(L) ==
  /\ gst_h264_quant_matrix_8x8_get_zigzag_from_raster(
       gst_h264_quant_matrix_8x8_get_raster_from_zigzag(L)) = L
  /\ gst_h264_quant_matrix_8x8_get_raster_from_zigzag(
       gst_h264_quant_matrix_8x8_get_zigzag_from_raster(L)) = L

\* C24: the scaling-list conversion used by start_picture is a position
\* permutation that round-trips: for every 16-element (4x4) and every
\* 64-element (8x8) list L, converting L from raster to zig-zag order and
\* back to raster order, and from zig-zag to raster and back, returns L.
TH_C24 ==
  query.fn = "start_picture_iq_matrix" =>
    LET pps == query.arg.pps
        iq == query.result
        n == IF pps.sequence.chroma_format_idc = 3 THEN 6 ELSE 2 IN
    /\ \A i \in 0..5 :
         /\ RoundTrips4x4(pps.scaling_lists_4x4[i])
         /\ SameEntries(pps.scaling_lists_4x4[i], iq.ScalingList4x4[i])
         /\ gst_h264_quant_matrix_4x4_get_zigzag_from_raster(
              iq.ScalingList4x4[i]) = pps.scaling_lists_4x4[i]
         /\ SameMove(pps.scaling_lists_4x4[i], iq.ScalingList4x4[i],
                     [k \in 0..15 |-> k],
                     gst_h264_quant_matrix_4x4_get_raster_from_zigzag(
                       [k \in 0..15 |-> k]))
    /\ \A i \in 0..5 :
         /\ RoundTrips8x8(pps.scaling_lists_8x8[i])
         /\ i < n =>
              /\ SameEntries(pps.scaling_lists_8x8[i], iq.ScalingList8x8[i])
              /\ gst_h264_quant_matrix_8x8_get_zigzag_from_raster(
                   iq.ScalingList8x8[i]) = pps.scaling_lists_8x8[i]
              /\ SameMove(pps.scaling_lists_8x8[i], iq.ScalingList8x8[i],
                          [k \in 0..63 |-> k],
                          gst_h264_quant_matrix_8x8_get_raster_from_zigzag(
                            [k \in 0..63 |-> k]))

\* lists with distinct entries that the conversion does reorder
WIT_C24 ==
  /\ query.fn = "start_picture_iq_matrix"
  /\ query.arg.pps.sequence.chroma_format_idc = 3
  /\ \A j, k \in 0..15 :
       j # k => query.arg.pps.scaling_lists_4x4[0][j]
                  # query.arg.pps.scaling_lists_4x4[0][k]
  /\ query.result.ScalingList4x4[0] # query.arg.pps.scaling_lists_4x4[0]
  /\ query.result.ScalingList8x8[5] # query.arg.pps.scaling_lists_8x8[5]
  /\ query.result.ScalingList4x4[0][4] = query.arg.pps.scaling_lists_4x4[0][2]


WIT_C25_passthrough ==
  /\ vppRet.called
  /\ vppRet.crop_meta
  /\ vpp.passthrough
  /\ ~vpp.cropping
  /\ vpp.op_flags = {}


\* ---------------------------------------------------------------------
\* the accelerator calls a step adds to the handle of picture p
NewCalls(p) ==
  SubSeq(va'[user_data[p]].log, Len(va[user_data[p]].log) + 1,
         Len(va'[user_data[p]].log))

\* C26: start_picture succeeds if and only if both the picture-parameter
\* submission and the IQ-matrix submission are accepted by the accelerator;
\* the picture-parameter buffer is submitted first, and if it is rejected
\* start_picture fails without submitting the IQ-matrix buffer.
TH_C26 ==
  [][\A p \in Pics :
       (ret' # ret /\ ret'.cb = "start_picture" /\ ret'.pic = p
        /\ user_data[p] # NoHandle) =>
         /\ Len(NewCalls(p)) >= 1
         /\ NewCalls(p)[1].type = "PictureParameter"
         /\ IF NewCalls(p)[1].ok
            THEN /\ Len(NewCalls(p)) = 2
                 /\ NewCalls(p)[2].type = "IQMatrix"
                 /\ ret'.ok = NewCalls(p)[2].ok
            ELSE /\ Len(NewCalls(p)) = 1
                 /\ ~ret'.ok]_vars

\* the picture parameters were accepted, the scaling matrices rejected
WIT_C26 ==
  \E p \in Pics :
    /\ ret = [cb |-> "start_picture", pic |-> p, ok |-> FALSE]
    /\ user_data[p] # NoHandle
    /\ Len(va[user_data[p]].log) = 2
    /\ va[user_data[p]].log[1] = [type |-> "PictureParameter", n |-> 0,
                                  ok |-> TRUE]
    /\ va[user_data[p]].log[2] = [type |-> "IQMatrix", n |-> 0, ok |-> FALSE]


\* ---------------------------------------------------------------------
\* C27: start_picture fills the 16-slot reference-frame array with the
\* DPB's short-term references first, in the order the DPB returns them,
\* then with its long-term references, stops at 16 entries in total
\* (surplus references are left out), and marks every remaining slot
\* invalid; the array never holds a long-term entry before a short-term
\* one.
TH_C27 ==
  query.fn = "start_picture_reference_frames" =>
    LET d == query.arg.dpb
        rf == query.result
        all == SelectSeq(d, LAMBDA p : p.ref = "SHORT")
                 \o SelectSeq(d, LAMBDA p : p.ref = "LONG") IN
    /\ DOMAIN rf = 1..16
    /\ \A i \in 1..16 :
         rf[i] = IF i <= Len(all) THEN _fill_vaapi_pic(all[i], TRUE)
                 ELSE FillerRecord
    /\ \A i, j \in 1..16 :
         (i < j /\ "VA_PICTURE_H264_LONG_TERM_REFERENCE" \in rf[i].flags)
           => "VA_PICTURE_H264_SHORT_TERM_REFERENCE" \notin rf[j].flags

\* a DPB with more than 16 references of both kinds, a long-term one first
WIT_C27 ==
  /\ query.fn = "start_picture_reference_frames"
  /\ Len(query.arg.dpb) = 40
  /\ query.arg.dpb[1].ref = "LONG"
  /\ query.arg.dpb[2].ref = "SHORT"
  /\ query.result[1].frame_idx = 2
  /\ "VA_PICTURE_H264_SHORT_TERM_REFERENCE" \in query.result[13].flags
  /\ "VA_PICTURE_H264_LONG_TERM_REFERENCE" \in query.result[14].flags
  /\ "VA_PICTURE_H264_LONG_TERM_REFERENCE" \in query.result[16].flags
  /\ query.result[16].frame_idx = 7


\* ---------------------------------------------------------------------
\* C28: for a top-field picture (with a surface handle, so that a
\* descriptor is built from it) the descriptor takes its bottom order count
\* from the paired field when merging is requested and a paired field
\* exists, and then carries no top-field flag; otherwise it is flagged
\* top-field with bottom order count 0. The bottom-field case is symmetric,
\* and a frame picture takes both order counts directly from the picture.
TH_C28 ==
  (query.fn = "_fill_vaapi_pic" /\ query.arg.picture.va_pic # NoHandle) =>
    LET picture == query.arg.picture
        d == query.result
        paired == query.arg.merge_other_field /\ picture.other_field.present
    IN
    /\ picture.field = "TOP_FIELD" =>
         /\ d.TopFieldOrderCnt = picture.top_field_order_cnt
         /\ "VA_PICTURE_H264_BOTTOM_FIELD" \notin d.flags
         /\ IF paired
            THEN /\ d.BottomFieldOrderCnt
                      = picture.other_field.bottom_field_order_cnt
                 /\ "VA_PICTURE_H264_TOP_FIELD" \notin d.flags
            ELSE /\ d.BottomFieldOrderCnt = 0
                 /\ "VA_PICTURE_H264_TOP_FIELD" \in d.flags
    /\ picture.field = "BOTTOM_FIELD" =>
         /\ d.BottomFieldOrderCnt = picture.bottom_field_order_cnt
         /\ "VA_PICTURE_H264_TOP_FIELD" \notin d.flags
         /\ IF paired
            THEN /\ d.TopFieldOrderCnt
                      = picture.other_field.top_field_order_cnt
                 /\ "VA_PICTURE_H264_BOTTOM_FIELD" \notin d.flags
            ELSE /\ d.TopFieldOrderCnt = 0
                 /\ "VA_PICTURE_H264_BOTTOM_FIELD" \in d.flags
    /\ picture.field = "FRAME" =>
         /\ d.TopFieldOrderCnt = picture.top_field_order_cnt
         /\ d.BottomFieldOrderCnt = picture.bottom_field_order_cnt
         /\ "VA_PICTURE_H264_TOP_FIELD" \notin d.flags
         /\ "VA_PICTURE_H264_BOTTOM_FIELD" \notin d.flags

\* a top field merged with its paired bottom field
WIT_C28 ==
  /\ query.fn = "_fill_vaapi_pic"
  /\ query.arg.picture.va_pic # NoHandle
  /\ query.arg.picture.field = "TOP_FIELD"
  /\ query.arg.merge_other_field
  /\ query.arg.picture.other_field.present
  /\ query.result.BottomFieldOrderCnt
       = query.arg.picture.other_field.bottom_field_order_cnt
  /\ query.result.BottomFieldOrderCnt
       # query.arg.picture.bottom_field_order_cnt
  /\ "VA_PICTURE_H264_TOP_FIELD" \notin query.result.flags


\* ---------------------------------------------------------------------
\* C30: decode_slice's result equals the accelerator's accept/reject result
\* for the slice buffer it submits (rejection gives failure), and the
\* submitted byte range is the original NAL payload itself, starting at
\* nalu.data + nalu.offset with length nalu.size, with slice_data_offset 0
\* and slice_data_size nalu.size in the parameters.
TH_C30 ==
  query.fn = "decode_slice" =>
    /\ query.result.ok = query.arg.accepted
    /\ query.result.data.buffer = query.arg.nalu.data
    /\ query.result.data.at = query.arg.nalu.offset
    /\ query.result.size = query.arg.nalu.size
    /\ query.result.slice_param.slice_data_offset = 0
    /\ query.result.slice_param.slice_data_size = query.arg.nalu.size

\* a rejected slice whose NAL unit lies inside its buffer
WIT_C30 ==
  /\ query.fn = "decode_slice"
  /\ ~query.arg.accepted
  /\ ~query.result.ok
  /\ query.arg.nalu.offset > 0
  /\ query.result.data.at = query.arg.nalu.offset
  /\ query.result.slice_param.slice_data_offset = 0
  /\ query.result.slice_param.slice_data_size = 100


\* ---------------------------------------------------------------------
\* what a descriptor of picture p shows of its marking: the long-term flag
\* with the long-term index, or the frame number with the short-term flag
\* when it is a short-term reference
Reflects(d, p) ==
  /\ d.picture_id = p.va_pic
  /\ ("VA_PICTURE_H264_LONG_TERM_REFERENCE" \in d.flags) = (p.ref = "LONG")
  /\ ("VA_PICTURE_H264_SHORT_TERM_REFERENCE" \in d.flags) = (p.ref = "SHORT")
  /\ d.frame_idx = IF p.ref = "LONG" THEN p.long_term_frame_idx
                   ELSE p.frame_num

\* C31: descriptors are recomputed at each use and never cached: whatever
\* marking changes (none, short-term, long-term, frame indices) were applied
\* to a picture between two fills, the descriptor written by each
\* start_picture or decode_slice shows the marking and frame index the
\* picture has at that call, not those of an earlier call or of creation.
TH_C31 ==
  /\ (va_desc.cb = "start_picture" /\ va_desc.as_current) =>
       Reflects(va_desc.CurrPic, va_desc.picture)
  /\ (va_desc.cb = "start_picture" /\ ~va_desc.as_current) =>
       IF va_desc.picture.ref = "NONE"
       THEN va_desc.ReferenceFrames[1] = _init_vaapi_pic
       ELSE Reflects(va_desc.ReferenceFrames[1], va_desc.picture)
  /\ va_desc.cb = "decode_slice" =>
       Reflects(va_desc.RefPicList0[1], va_desc.picture)

\* a picture created unmarked, described as a short-term reference by one
\* call and, marked long-term since, described again by decode_slice
WIT_C31 ==
  /\ va_desc.cb = "decode_slice"
  /\ va_desc.fills = MaxFills
  /\ va_desc.earlier.ref = "SHORT"
  /\ va_desc.earlier.frame_num = 5
  /\ va_desc.picture.ref = "LONG"
  /\ va_desc.picture.long_term_frame_idx = 3
  /\ va_desc.picture = ref_picture
  /\ va_desc.RefPicList0[1].frame_idx = 3
  /\ "VA_PICTURE_H264_LONG_TERM_REFERENCE" \in va_desc.RefPicList0[1].flags


\* ---------------------------------------------------------------------
\* C32: a negotiate call made while the pending-negotiation flag is false
\* (a renegotiation request that did not come from new_sequence) returns
\* success and performs no accelerator close, open or set-frame-size and no
\* output-state change; the accelerator is closed and reopened only by a
\* negotiate call that found the flag set, that is, by one that
\* new_sequence made after it had requested the renegotiation.
TH_C32 ==
  /\ \A f \in FailAts :
       LET c == negotiate_code(self, decoder, output_state, f) IN
       /\ ~self.need_negotiation =>
            /\ c.ok
            /\ ~c.ran
            /\ c.decoder = decoder
            /\ c.output_state = output_state
            /\ c.self = self
       /\ (c.ran \/ c.decoder # decoder \/ c.output_state # output_state)
            => self.need_negotiation
  /\ \A sps \in SpsSet, m \in DpbSizes, f \in FailAts :
       LET c == new_sequence_code(self, decoder, output_state, has_profile,
                                  sps, m, f) IN
       (c.decoder # decoder \/ c.output_state # output_state)
         => c.negotiated
  /\ query.fn = "negotiate" =>
       (~query.arg.need_negotiation => query.result)

\* a renegotiation request served while the accelerator is open and the
\* output state set: it returned success and both are as new_sequence left
\* them
WIT_C32 ==
  /\ query.fn = "negotiate"
  /\ ~query.arg.need_negotiation
  /\ query.result
  /\ seqRet.called /\ seqRet.ok /\ seqRet.negotiated
  /\ decoder.open
  /\ decoder.coded_width = seqRet.sps.width
  /\ output_state.set
  /\ ~self.need_negotiation


\* ---------------------------------------------------------------------
\* C33: if new_sequence fails because the renegotiation it requested was
\* rejected (by downstream, or because the accelerator could not be
\* reopened or sized), a following new_sequence with the identical SPS
\* requests renegotiation again; it never returns success for that SPS
\* without a renegotiation having succeeded.
CX_C33 ==
  (seqRet.called /\ ~seqRet.ok /\ seqRet.negotiated) =>
    \A f \in FailAts :
      LET c == new_sequence_code(self, decoder, output_state, has_profile,
                                 seqRet.sps, seqRet.max_dpb_size, f) IN
      /\ c.negotiated
      /\ c.ok => ~Rejected(f)


\* ---------------------------------------------------------------------
\* C34: when new_sequence fails because the profile or the pixel format is
\* unsupported, it modifies no session state: profile, pixel format, coded
\* and display dimensions, interlaced flag, DPB capacity, buffer-pool
\* minimum and the pending-negotiation flag all keep the values they had
\* before the call.
CX_C34 ==
  \A sps \in SpsSet, m \in DpbSizes, f \in FailAts :
    LET c == new_sequence_code(self, decoder, output_state, has_profile,
                               sps, m, f) IN
    ~SpsSupported(sps, m) =>
      /\ ~c.ok
      /\ c.self.profile = self.profile
      /\ c.self.rt_format = self.rt_format
      /\ c.self.coded_width = self.coded_width
      /\ c.self.coded_height = self.coded_height
      /\ c.self.width = self.width
      /\ c.self.height = self.height
      /\ c.self.interlaced = self.interlaced
      /\ c.self.dpb_size = self.dpb_size
      /\ c.self.min_buffers = self.min_buffers
      /\ c.self.need_negotiation = self.need_negotiation

\* apart from the DPB capacity the session is as it was
SessionKeptButDpbSize ==
  \A sps \in SpsSet, m \in DpbSizes, f \in FailAts :
    LET c == new_sequence_code(self, decoder, output_state, has_profile,
                               sps, m, f) IN
    ~SpsSupported(sps, m) =>
      /\ ~c.ok
      /\ [c.self EXCEPT !.dpb_size = 0] = [self EXCEPT !.dpb_size = 0]


\* ---------------------------------------------------------------------
\* C35: with set_property (or a colour balance set) running on an
\* application thread concurrently with before_transform on the streaming
\* thread, no filter-value change is lost: in every reachable state where
\* rebuild_filters is false, the filter buffers last built were built from
\* the current denoise and colour balance values.
CX_C35 ==
  ~vpp.rebuild_filters =>
    vppThread.from = [denoise |-> vpp.denoise, hue |-> vpp.hue]

\* the same for the denoise value while no thread is inside a call: a
\* change that stays lost
NoChangeLostAtRest ==
  (~vpp.rebuild_filters /\ vppThread.pc = "idle" /\ vppThread.cb_pc = "idle")
    => vppThread.from.denoise = vpp.denoise


\* ---------------------------------------------------------------------
\* C36: while the orientation applied to the filter is not the identity,
\* the direction conversion flag stays set in op_flags, so the element is
\* never switched to passthrough while it rotates or flips, across any
\* sequence of property sets (video direction, filter values,
\* disable-passthrough), orientation tag events and update_properties
\* calls.
CX_C36 ==
  vpp.orientation # "GST_VIDEO_ORIENTATION_IDENTITY" =>
    /\ "VPP_CONVERT_DIRECTION" \in vpp.op_flags
    /\ ~vpp.passthrough


\* ---------------------------------------------------------------------
\* C37: the session's scratch reference array is empty whenever
\* start_picture returns, on success and on each failure path, so the
\* session retains no picture reference taken from the DPB between
\* callbacks.
TH_C37 ==
  query.fn = "start_picture" => query.result.ref_list = <<>>

\* start_picture failed at the scaling matrices after it had described
\* short-term and long-term references of the DPB
WIT_C37 ==
  /\ query.fn = "start_picture"
  /\ ~query.result.ok
  /\ query.arg.a1
  /\ Len(gst_h264_dpb_get_pictures_short_term_ref(query.arg.dpb)) > 0
  /\ Len(gst_h264_dpb_get_pictures_long_term_ref(query.arg.dpb)) > 0
  /\ query.result.ReferenceFrames[1] # _init_vaapi_pic
  /\ query.result.ref_list = <<>>

\* start_picture succeeded with references in the DPB
WIT_C37_ok ==
  /\ query.fn = "start_picture"
  /\ query.result.ok
  /\ Len(gst_h264_dpb_get_pictures_long_term_ref(query.arg.dpb)) > 0
  /\ query.result.ref_list = <<>>


\* ---------------------------------------------------------------------
\* C38: in profile selection the number of candidate profiles collected
\* never exceeds the 4-entry candidate array, for every SPS (any
\* profile_idc, any constraint-set flags, any number of views) and every
\* max_dpb_size.
TH_C38 ==
  query.fn = "_get_profile" =>
    Len(Candidates(query.arg.sps, query.arg.max_dpb_size)) <= CandidateSlots

\* the stream with the most candidates: Multiview High with two views and a
\* DPB within the limit collects three
WIT_C38 ==
  /\ query.fn = "_get_profile"
  /\ query.arg.sps.profile_idc = "MULTIVIEW_HIGH"
  /\ _get_num_views(query.arg.sps) = 2
  /\ query.arg.max_dpb_size = DpbLimit
  /\ Len(Candidates(query.arg.sps, query.arg.max_dpb_size)) = 3


\* ---------------------------------------------------------------------
\* at most one reference flag and at most one field flag
OneOfEach(d) ==
  /\ ~("VA_PICTURE_H264_LONG_TERM_REFERENCE" \in d.flags
       /\ "VA_PICTURE_H264_SHORT_TERM_REFERENCE" \in d.flags)
  /\ ~("VA_PICTURE_H264_TOP_FIELD" \in d.flags
       /\ "VA_PICTURE_H264_BOTTOM_FIELD" \in d.flags)

\* the descriptor is marked invalid exactly when hole says so, and then it
\* has the invalid surface id, frame index 0 and zero order counts
InvalidIff(d, hole) ==
  /\ ("VA_PICTURE_H264_INVALID" \in d.flags) = hole
  /\ "VA_PICTURE_H264_INVALID" \in d.flags =>
       /\ d.picture_id = VA_INVALID_ID
       /\ d.frame_idx = 0
       /\ d.TopFieldOrderCnt = 0
       /\ d.BottomFieldOrderCnt = 0
  /\ "VA_PICTURE_H264_INVALID" \notin d.flags =>
       d.picture_id # VA_INVALID_ID

\* C39: every descriptor produced by the descriptor builder or the
\* reference-list filler carries at most one of the long-term/short-term
\* flags and at most one of the top-field/bottom-field flags, and carries
\* the invalid flag (with invalid surface id, frame index 0 and zero order
\* counts) exactly when the entry is a hole (a null entry, or a slot past
\* the end of the list) or the picture has no surface handle.
TH_C39 ==
  /\ query.fn = "_fill_vaapi_pic" =>
       /\ OneOfEach(query.result)
       /\ InvalidIff(query.result, query.arg.picture.va_pic = NoHandle)
  /\ query.fn = "_fill_ref_pic_list" =>
       \A i \in 1..RefListSlots :
         /\ OneOfEach(query.result[i])
         /\ InvalidIff(query.result[i],
                       \/ i > Len(query.arg.reflist)
                       \/ query.arg.reflist[i].null
                       \/ query.arg.reflist[i].picture.va_pic = NoHandle)

\* a list of a picture without a handle, a null entry and a long-term top
\* field: two invalid descriptors and one with one flag of each kind
WIT_C39 ==
  /\ query.fn = "_fill_ref_pic_list"
  /\ Len(query.arg.reflist) = 3
  /\ ~query.arg.reflist[1].null
  /\ query.arg.reflist[1].picture.va_pic = NoHandle
  /\ query.arg.reflist[2].null
  /\ query.arg.reflist[3] = [null |-> FALSE, picture |-> RefLongTop]
  /\ query.arg.current_picture.field # "FRAME"
  /\ query.result[1] = _init_vaapi_pic
  /\ query.result[2] = _init_vaapi_pic
  /\ query.result[3].flags = {"VA_PICTURE_H264_LONG_TERM_REFERENCE",
                              "VA_PICTURE_H264_TOP_FIELD"}

\* the builder itself, on a picture without a handle
WIT_C39_builder ==
  /\ query.fn = "_fill_vaapi_pic"
  /\ query.arg.picture.va_pic = NoHandle
  /\ query.arg.picture.ref = "LONG"
  /\ query.result = _init_vaapi_pic


\* ---------------------------------------------------------------------
\* C40: the profile selected for an SPS does not depend on max_dpb_size:
\* for every SPS and every set of accelerator-supported profiles, two
\* profile selections that differ only in max_dpb_size (for example 16 and
\* 17 for a Multiview-High SPS) return the same profile.
TH_C40 ==
  query.fn = "_get_profile" =>
    \A m \in FnDpbSizes :
      _get_profile(has_profile, query.arg.sps, m) = query.result

\* a Multiview High stream with a DPB above the limit on a device that has
\* Multiview High but not Stereo High: Multiview High is selected, as it is
\* for a DPB within the limit
WIT_C40 ==
  /\ query.fn = "_get_profile"
  /\ query.arg.sps.profile_idc = "MULTIVIEW_HIGH"
  /\ _get_num_views(query.arg.sps) = 2
  /\ query.arg.max_dpb_size = DpbLimit + 1
  /\ "VAProfileH264MultiviewHigh" \in has_profile
  /\ "VAProfileH264StereoHigh" \notin has_profile
  /\ query.result = "VAProfileH264MultiviewHigh"
  /\ _get_profile(has_profile, query.arg.sps, DpbLimit) = query.result


====
